---- MODULE Spec2Model ----
(***************************************************************************)
(* A model of helpi's session store (internal/session/manager.go), its     *)
(* LLM router (internal/llm/router.go, factory.go) and the text-message    *)
(* handler that ties them together (internal/bot/handlers.go).             *)
(*                                                                         *)
(* Strings are atomic values.  Texts stand for valid UTF-8 text, which is  *)
(* what the handlers receive from and send to JSON APIs.  An error of the  *)
(* store is the text fmt.Errorf puts before the wrapped cause, "" the nil  *)
(* error.  An error of the llm package is the sequence of the parts of its *)
(* text, <<>> the nil error.  A nil slice and an empty one are both <<>>.  *)
(* A failure of the file system (a read, write or remove that fails for a  *)
(* reason other than the file not existing) is an input of the step that   *)
(* meets it, recorded in the call's frame.                                 *)
(***************************************************************************)
EXTENDS Integers, Sequences, FiniteSets, TLC

(***************************************************************************)
(* Bounds of the model.                                                    *)
(***************************************************************************)
\* The longest message sequence a caller hands to Save.
MaxLen == 3

\* The most providers a test hands to newRouter.
MaxProviders == 2

\* The concurrent tasks (goroutines) calling into the store.
Tasks == {1, 2}
NoTask == 0
\* Telegram user ids (int64).
Users == {101, 102}

(***************************************************************************)
(* llm.Message and the messages the model draws its inputs from.           *)
(***************************************************************************)
Message(role, content) == [Role |-> role, Content |-> content]

m1 == Message("user", "hi")
m2 == Message("assistant", "hello")
ApiMessages == {m1, m2}

RECURSIVE SeqsUpTo(_, _)
SeqsUpTo(S, n) ==
    IF n = 0 THEN {<<>>}
    ELSE LET shorter == SeqsUpTo(S, n - 1)
         IN  shorter \cup {Append(s, x) : s \in {q \in shorter : Len(q) = n - 1}, x \in S}

\* The arguments a single caller passes to Save.
SaveArgs == SeqsUpTo(ApiMessages, MaxLen)
\* The arguments concurrent callers pass to Save: of different lengths, so
\* that one written over another shows.
ConcArgs == {<<m1>>, <<m1, m2, m2>>}

(***************************************************************************)
(* encoding/json on []llm.Message.  A file is a sequence of tokens: a      *)
(* punctuation byte or a string literal.                                   *)
(***************************************************************************)
P(c) == [t |-> "punct", v |-> c]
S(s) == [t |-> "string", v |-> s]

MarshalMessage(m) ==
    << P("{"), S("Role"), P(":"), S(m.Role), P(","),
       S("Content"), P(":"), S(m.Content), P("}") >>

RECURSIVE MarshalElems(_)
MarshalElems(messages) ==
    IF messages = <<>> THEN <<>>
    ELSE MarshalMessage(Head(messages))
            \o (IF Len(messages) > 1 THEN <<P(",")>> ELSE <<>>)
            \o MarshalElems(Tail(messages))

\* json.Marshal(messages) for a non-nil slice; it cannot fail on strings.
Marshal(messages) == <<P("[")>> \o MarshalElems(messages) \o <<P("]")>>

ErrParse == "failed to parse session"
ErrRead == "failed to read session"
ErrWrite == "failed to write session"
ErrDelete == "failed to delete session"

ErrMkdir == "failed to create session directory"

ParseOk(messages) == [messages |-> messages, err |-> ""]
ParseFail == [messages |-> <<>>, err |-> ErrParse]

\* A bare word of the input: null, true, false, a number, or any other run
\* of letters.
W(w) == [t |-> "word", v |-> w]
Null == W("null")
\* The words that are JSON values; of the numbers, the two the inputs use.
Literals == {"null", "true", "false", "0", "1"}

\* The token at data[i]; past the end, a token no input holds.
NoToken == [t |-> "end", v |-> ""]
At(data, i) == IF i \in 1 .. Len(data) THEN data[i] ELSE NoToken

RECURSIVE SkipValue(_, _)
RECURSIVE SkipElems(_, _)
RECURSIVE SkipMembers(_, _)

\* The index after the JSON value that starts at data[i]; 0 if none does.
SkipValue(data, i) ==
    LET tok == At(data, i)
    IN  IF tok.t = "string" THEN i + 1
        ELSE IF tok.t = "word" THEN (IF tok.v \in Literals THEN i + 1 ELSE 0)
        ELSE IF tok = P("[")
        THEN IF At(data, i + 1) = P("]") THEN i + 2 ELSE SkipElems(data, i + 1)
        ELSE IF tok = P("{")
        THEN IF At(data, i + 1) = P("}") THEN i + 2 ELSE SkipMembers(data, i + 1)
        ELSE 0

\* The index after the array whose next element starts at data[i].
SkipElems(data, i) ==
    LET j == SkipValue(data, i)
    IN  IF j = 0 THEN 0
        ELSE IF At(data, j) = P(",") THEN SkipElems(data, j + 1)
        ELSE IF At(data, j) = P("]") THEN j + 1
        ELSE 0

\* The index after the object whose next member starts at data[i].
SkipMembers(data, i) ==
    IF At(data, i).t # "string" \/ At(data, i + 1) # P(":") THEN 0
    ELSE LET j == SkipValue(data, i + 2)
         IN  IF j = 0 THEN 0
             ELSE IF At(data, j) = P(",") THEN SkipMembers(data, j + 1)
             ELSE IF At(data, j) = P("}") THEN j + 1
             ELSE 0

\* json.Valid: the input is one JSON value and nothing else.
Valid(data) == SkipValue(data, 1) = Len(data) + 1

\* The spellings of a field's name that differ in the case of its letters.
RoleSpellings ==
    {"ROLE", "ROLe", "ROlE", "ROle", "RoLE", "RoLe", "RolE", "Role", "rOLE",
     "rOLe", "rOlE", "rOle", "roLE", "roLe", "rolE", "role"}

ContentSpellings ==
    {"CONTENT", "CONTENt", "CONTEnT", "CONTEnt", "CONTeNT", "CONTeNt",
     "CONTenT", "CONTent", "CONtENT", "CONtENt", "CONtEnT", "CONtEnt",
     "CONteNT", "CONteNt", "CONtenT", "CONtent", "COnTENT", "COnTENt",
     "COnTEnT", "COnTEnt", "COnTeNT", "COnTeNt", "COnTenT", "COnTent",
     "COntENT", "COntENt", "COntEnT", "COntEnt", "COnteNT", "COnteNt",
     "COntenT", "COntent", "CoNTENT", "CoNTENt", "CoNTEnT", "CoNTEnt",
     "CoNTeNT", "CoNTeNt", "CoNTenT", "CoNTent", "CoNtENT", "CoNtENt",
     "CoNtEnT", "CoNtEnt", "CoNteNT", "CoNteNt", "CoNtenT", "CoNtent",
     "ConTENT", "ConTENt", "ConTEnT", "ConTEnt", "ConTeNT", "ConTeNt",
     "ConTenT", "ConTent", "ContENT", "ContENt", "ContEnT", "ContEnt",
     "ConteNT", "ConteNt", "ContenT", "Content", "cONTENT", "cONTENt",
     "cONTEnT", "cONTEnt", "cONTeNT", "cONTeNt", "cONTenT", "cONTent",
     "cONtENT", "cONtENt", "cONtEnT", "cONtEnt", "cONteNT", "cONteNt",
     "cONtenT", "cONtent", "cOnTENT", "cOnTENt", "cOnTEnT", "cOnTEnt",
     "cOnTeNT", "cOnTeNt", "cOnTenT", "cOnTent", "cOntENT", "cOntENt",
     "cOntEnT", "cOntEnt", "cOnteNT", "cOnteNt", "cOntenT", "cOntent",
     "coNTENT", "coNTENt", "coNTEnT", "coNTEnt", "coNTeNT", "coNTeNt",
     "coNTenT", "coNTent", "coNtENT", "coNtENt", "coNtEnT", "coNtEnt",
     "coNteNT", "coNteNt", "coNtenT", "coNtent", "conTENT", "conTENt",
     "conTEnT", "conTEnt", "conTeNT", "conTeNt", "conTenT", "conTent",
     "contENT", "contENt", "contEnT", "contEnt", "conteNT", "conteNt",
     "contenT", "content"}

\* The field of llm.Message an object's key names, matched exactly or
\* without regard to case; "" when it names none.
FieldOf(key) ==
    IF key \in RoleSpellings THEN "Role"
    ELSE IF key \in ContentSpellings THEN "Content"
    ELSE ""

ZeroMessage == Message("", "")

\* A member's value stored into m: a string sets the field its key names;
\* null, and the value of a key that names no field, set nothing.
SetField(m, key, tok) ==
    IF tok.t # "string" THEN m
    ELSE IF FieldOf(key) = "Role" THEN [m EXCEPT !.Role = tok.v]
    ELSE IF FieldOf(key) = "Content" THEN [m EXCEPT !.Content = tok.v]
    ELSE m

\* Whether the value that starts with tok can be stored under key: a field
\* of type string takes a string or null, an unknown key's value is skipped.
Fits(key, tok) == FieldOf(key) = "" \/ tok.t = "string" \/ tok = Null

\* The members of an object from the key at data[i] on, stored into m.
RECURSIVE DecodeMembers(_, _, _, _)
DecodeMembers(data, i, m, ok) ==
    LET key == data[i].v
        tok == data[i + 2]
        j == SkipValue(data, i + 2)
        stored == SetField(m, key, tok)
        fits == ok /\ Fits(key, tok)
    IN  IF data[j] = P(",") THEN DecodeMembers(data, j + 1, stored, fits)
        ELSE [message |-> stored, ok |-> fits, next |-> j + 1]

\* One element of the array into a zero llm.Message: an object by its
\* members, null as it is; any other value does not fit a struct.
DecodeElem(data, i) ==
    IF data[i] = P("{")
    THEN IF data[i + 1] = P("}")
         THEN [message |-> ZeroMessage, ok |-> TRUE, next |-> i + 2]
         ELSE DecodeMembers(data, i + 1, ZeroMessage, TRUE)
    ELSE [message |-> ZeroMessage, ok |-> data[i] = Null,
          next |-> SkipValue(data, i)]

\* The elements of an array from the one at data[i] on.
RECURSIVE DecodeElems(_, _, _, _)
DecodeElems(data, i, acc, ok) ==
    LET e == DecodeElem(data, i)
        acc2 == Append(acc, e.message)
        ok2 == ok /\ e.ok
    IN  IF data[e.next] = P(",") THEN DecodeElems(data, e.next + 1, acc2, ok2)
        ELSE [messages |-> acc2, ok |-> ok2]

\* json.Unmarshal(data, &messages) as Get uses its result: input that is not
\* one JSON value is a syntax error; null leaves the slice nil; an array is
\* decoded element by element; a value of the wrong type, at the top or in
\* a field, is an error after the rest has been decoded.
Unmarshal(data) ==
    IF ~Valid(data) THEN ParseFail
    ELSE IF data[1] = Null THEN ParseOk(<<>>)
    ELSE IF data[1] # P("[") THEN ParseFail
    ELSE IF data[2] = P("]") THEN ParseOk(<<>>)
    ELSE LET r == DecodeElems(data, 2, <<>>, TRUE)
         IN  IF r.ok THEN ParseOk(r.messages) ELSE ParseFail

(***************************************************************************)
(* session.NewManager and the pure parts of the manager's methods.         *)
(***************************************************************************)
DefaultMaxMessages == 50
DefaultPath == "./data/sessions"

\* The nil Manager.
NilManager == [path |-> "", maxMessages |-> 0]

\* NewManager(path, maxMessages); fault: os.MkdirAll fails.
NewManager(path, maxMessages, fault) ==
    IF fault THEN [manager |-> NilManager, err |-> ErrMkdir]
    ELSE [manager |->
            [path        |-> IF path = "" THEN DefaultPath ELSE path,
             maxMessages |-> IF maxMessages = 0 THEN DefaultMaxMessages
                             ELSE maxMessages],
          err |-> ""]

\* The arguments NewManager is called with.
ManagerPaths == {"", "/var/lib/helpi"}
ManagerMaxMessages == {-1, 0, 1, 2}
\* ... and under concurrent callers.
ConcMaxMessages == {2}

\* A sessionPath that names one file for every user.
sessionPathShared(m, userID) == <<m.path, 0, ".json">>

\* manager.sessionPath: filepath.Join(m.path, "<userID>.json").
sessionPath(m, userID) == <<m.path, userID, ".json">>

\* A truncation that keeps the oldest messages: messages[:maxMessages].
TruncateOldest(messages, maxMessages) ==
    IF maxMessages > 0 /\ Len(messages) > maxMessages
    THEN SubSeq(messages, 1, maxMessages)
    ELSE messages

\* A truncation that is off by one: messages[len(messages)-maxMessages-1:].
TruncateOneMore(messages, maxMessages) ==
    IF maxMessages > 0 /\ Len(messages) > maxMessages
    THEN SubSeq(messages, Len(messages) - maxMessages, Len(messages))
    ELSE messages

\* Save's truncation: messages[len(messages)-maxMessages:].
Truncate(messages, maxMessages) ==
    IF maxMessages > 0 /\ Len(messages) > maxMessages
    THEN SubSeq(messages, Len(messages) - maxMessages + 1, Len(messages))
    ELSE messages

(***************************************************************************)
(* The file system under the session directory.                            *)
(***************************************************************************)
NoFile == [exists |-> FALSE, data |-> <<>>]
File(data) == [exists |-> TRUE, data |-> data]

\* An open without O_TRUNC: what the file holds stays.
OpenKeep(file) == File(file.data)

\* open(O_WRONLY|O_CREATE|O_TRUNC): the file exists and is empty.
OpenTrunc(file) == File(<<>>)

\* write(2) of data at offset 0 of the opened file: bytes already in the
\* file beyond the written ones stay.
WriteAt0(file, data) ==
    File(data \o SubSeq(file.data, Len(data) + 1, Len(file.data)))

\* os.ReadFile; fault: it fails with an error other than not-exist.
ReadFile(file, fault) ==
    IF fault THEN [data |-> <<>>, err |-> "EIO"]
    ELSE IF ~file.exists THEN [data |-> <<>>, err |-> "ENOENT"]
    ELSE [data |-> file.data, err |-> ""]

\* os.Remove; fault: it fails with an error other than not-exist.
Remove(file, fault) ==
    IF fault THEN [file |-> file, err |-> "EACCES"]
    ELSE IF ~file.exists THEN [file |-> file, err |-> "ENOENT"]
    ELSE [file |-> NoFile, err |-> ""]

\* What a write(2) that fails can leave behind: a strict prefix of the data.
PartialWrites(data) == {SubSeq(data, 1, k) : k \in 0 .. (Len(data) - 1)}

(***************************************************************************)
(* llm: the configuration, the providers, the router.  An llm error is the *)
(* sequence of the parts of its text; <<>> is the nil error.               *)
(***************************************************************************)
NilErr == <<>>
ErrNoProvider == <<"no LLM provider enabled">>
ErrNotEnabled(name) == <<name, ": ", "provider not enabled">>
\* A wrapping that leaves the name out: fmt.Errorf("%w", err).
WrapBare(name, cause) == <<cause>>
\* fmt.Errorf("<name>: %w", err)
Wrap(name, cause) == <<name, ": ", cause>>

\* config.ProvidersConfig: per backend, config.ProviderConfig.
Backends == {"OpenAI", "Anthropic", "Ollama", "OpenRouter", "OpenCode"}
Models == {"", "model-x"}
\* Every combination of enabled flags; one default_model for all backends.
Configs ==
    {[b \in Backends |-> [Enabled |-> e[b], DefaultModel |-> m]] :
        e \in [Backends -> BOOLEAN], m \in Models}
NoConfig == [b \in Backends |-> [Enabled |-> FALSE, DefaultModel |-> ""]]
\* The process environment: the API keys.
EnvKeys == {"OPENAI_API_KEY", "ANTHROPIC_API_KEY", "OPENROUTER_API_KEY", "OPENCODE_API_KEY"}
Envs == [EnvKeys -> {"", "sk-test"}]
NoEnv == [k \in EnvKeys |-> ""]

Provider(name, enabled, model, baseURL) ==
    [name |-> name, enabled |-> enabled, model |-> model, baseURL |-> baseURL]
NilProvider == Provider("", FALSE, "", "")

\* A constructor that takes the flag for the capability: enabled = flag.
NewOpenAIProviderFlagOnly(cfg, env) ==
    Provider("openai", cfg["OpenAI"].Enabled, cfg["OpenAI"].DefaultModel, "")

NewOpenAIProvider(cfg, env) ==
    Provider("openai", cfg["OpenAI"].Enabled /\ env["OPENAI_API_KEY"] # "",
             cfg["OpenAI"].DefaultModel, "")

NewAnthropicProvider(cfg, env) ==
    Provider("anthropic", cfg["Anthropic"].Enabled /\ env["ANTHROPIC_API_KEY"] # "",
             cfg["Anthropic"].DefaultModel, "")

NewOllamaProvider(cfg, env) ==
    Provider("ollama", cfg["Ollama"].Enabled, cfg["Ollama"].DefaultModel,
             IF cfg["Ollama"].DefaultModel = "" THEN "http://localhost:11434/v1"
             ELSE cfg["Ollama"].DefaultModel)

NewOpenRouterProvider(cfg, env) ==
    Provider("openrouter", cfg["OpenRouter"].Enabled /\ env["OPENROUTER_API_KEY"] # "",
             cfg["OpenRouter"].DefaultModel, "https://openrouter.ai/api/v1")

NewOpenCodeProvider(cfg, env) ==
    Provider("opencode", cfg["OpenCode"].Enabled /\ env["OPENCODE_API_KEY"] # "",
             cfg["OpenCode"].DefaultModel, "https://opencode.ai/zen/v1")

Name(p) == p.name
IsEnabled(p) == p.enabled

\* newRouter(providers, defaultIdx); defaultIdx counts from 0, as in Go.
newRouter(providers, defaultIdx) ==
    [nil |-> FALSE, providers |-> providers, defaultIdx |-> defaultIdx]
NilRouter == [nil |-> TRUE, providers |-> <<>>, defaultIdx |-> -1]

\* One "if cfg.Providers.X.Enabled { append; set defaultIdx }" of NewRouter.
AddProvider(acc, enabled, provider) ==
    IF enabled
    THEN LET providers == Append(acc.providers, provider)
         IN  [providers |-> providers,
              defaultIdx |-> IF acc.defaultIdx = -1 THEN Len(providers) - 1
                             ELSE acc.defaultIdx]
    ELSE acc

\* A NewRouter without the final len(providers) == 0 check.
NewRouterUnchecked(cfg, env) ==
    LET a0 == [providers |-> <<>>, defaultIdx |-> -1]
        a1 == AddProvider(a0, cfg["OpenAI"].Enabled, NewOpenAIProvider(cfg, env))
        a2 == AddProvider(a1, cfg["Anthropic"].Enabled, NewAnthropicProvider(cfg, env))
        a3 == AddProvider(a2, cfg["Ollama"].Enabled, NewOllamaProvider(cfg, env))
        a4 == AddProvider(a3, cfg["OpenRouter"].Enabled, NewOpenRouterProvider(cfg, env))
        a5 == AddProvider(a4, cfg["OpenCode"].Enabled, NewOpenCodeProvider(cfg, env))
    IN  [router |-> newRouter(a5.providers, a5.defaultIdx), err |-> NilErr]

NewRouter(cfg, env) ==
    LET a0 == [providers |-> <<>>, defaultIdx |-> -1]
        a1 == AddProvider(a0, cfg["OpenAI"].Enabled, NewOpenAIProvider(cfg, env))
        a2 == AddProvider(a1, cfg["Anthropic"].Enabled, NewAnthropicProvider(cfg, env))
        a3 == AddProvider(a2, cfg["Ollama"].Enabled, NewOllamaProvider(cfg, env))
        a4 == AddProvider(a3, cfg["OpenRouter"].Enabled, NewOpenRouterProvider(cfg, env))
        a5 == AddProvider(a4, cfg["OpenCode"].Enabled, NewOpenCodeProvider(cfg, env))
    IN  IF Len(a5.providers) = 0
        THEN [router |-> NilRouter, err |-> ErrNoProvider]
        ELSE [router |-> newRouter(a5.providers, a5.defaultIdx), err |-> NilErr]

\* The "for _, p := range r.providers" of GetProvider, from position i on:
\* the position of the first enabled provider, 0 if there is none.
RECURSIVE FirstEnabled(_, _)
FirstEnabled(providers, i) ==
    IF i > Len(providers) THEN 0
    ELSE IF IsEnabled(providers[i]) THEN i
    ELSE FirstEnabled(providers, i + 1)

\* A GetProvider without the default index: the scan alone.
GetProviderScanOnly(r) ==
    LET i == FirstEnabled(r.providers, 1)
    IN  IF i = 0 THEN [provider |-> NilProvider, err |-> ErrNoProvider]
        ELSE [provider |-> r.providers[i], err |-> NilErr]

GetProvider(r) ==
    IF /\ r.defaultIdx >= 0
       /\ r.defaultIdx < Len(r.providers)
       /\ IsEnabled(r.providers[r.defaultIdx + 1])
    THEN [provider |-> r.providers[r.defaultIdx + 1], err |-> NilErr]
    ELSE LET i == FirstEnabled(r.providers, 1)
         IN  IF i = 0 THEN [provider |-> NilProvider, err |-> ErrNoProvider]
             ELSE [provider |-> r.providers[i], err |-> NilErr]

\* What the backend answers to one request: the reply texts (choices, text
\* blocks), or the cause of the failure.
BackendOk(texts) == [texts |-> texts, err |-> ""]
BackendErr(cause) == [texts |-> <<>>, err |-> cause]

\* A turn of a native request, and the request: the base URL of the client
\* that issues it ("": the SDK's own), the model, the max_tokens parameter
\* (0: not set), the system field (its text blocks) and the turns.
Turn(role, text) == [role |-> role, text |-> text]
MaxTokens == 1024
Request(endpoint, model, maxTokens, system, turns) ==
    [endpoint |-> endpoint, model |-> model, maxTokens |-> maxTokens,
     system |-> system, turns |-> turns]

\* A switch on msg.Role without the default case: the role is passed on.
OpenAITurnAsIs(msg) == Turn(msg.Role, msg.Content)

\* The switch on msg.Role of the OpenAI-style providers.
OpenAITurn(msg) ==
    CASE msg.Role = "system" -> Turn("system", msg.Content)
      [] msg.Role = "user" -> Turn("user", msg.Content)
      [] msg.Role = "assistant" -> Turn("assistant", msg.Content)
      [] OTHER -> Turn("user", msg.Content)

\* openAIMessages and the ChatCompletionNewParams built from them.
OpenAIRequest(p, messages) ==
    Request(p.baseURL, p.model, 0, <<>>, [i \in 1 .. Len(messages) |-> OpenAITurn(messages[i])])

\* A reply taken from the last choice: resp.Choices[len(resp.Choices)-1].
LastChoice(texts) == IF Len(texts) = 0 THEN "" ELSE texts[Len(texts)]

\* The reply of an OpenAI-style response: resp.Choices[0].Message.Content,
\* "" when there is no choice.
FirstChoice(texts) == IF Len(texts) = 0 THEN "" ELSE texts[1]

\* SendMessage without the enabled check.
OpenAISendMessageUnchecked(p, messages, backend) ==
    IF backend.err # ""
    THEN [text |-> "", err |-> Wrap(Name(p), backend.err),
          requests |-> <<OpenAIRequest(p, messages)>>]
    ELSE [text |-> FirstChoice(backend.texts), err |-> NilErr,
          requests |-> <<OpenAIRequest(p, messages)>>]

\* SendMessage of openAIProvider, ollamaProvider, openRouterProvider and
\* openCodeProvider, given the backend's answer: the reply, the error and
\* the requests issued.
OpenAISendMessage(p, messages, backend) ==
    IF ~p.enabled
    THEN [text |-> "", err |-> ErrNotEnabled(Name(p)), requests |-> <<>>]
    ELSE IF backend.err # ""
    THEN [text |-> "", err |-> Wrap(Name(p), backend.err),
          requests |-> <<OpenAIRequest(p, messages)>>]
    ELSE [text |-> FirstChoice(backend.texts), err |-> NilErr,
          requests |-> <<OpenAIRequest(p, messages)>>]

\* The "for _, msg := range messages" of anthropicProvider.SendMessage from
\* position i on; acc holds systemMsg and conversationMessages.
RECURSIVE AnthropicScan(_, _, _)
AnthropicScan(messages, i, acc) ==
    IF i > Len(messages) THEN acc
    ELSE IF messages[i].Role = "system"
    THEN AnthropicScan(messages, i + 1, [acc EXCEPT !.systemMsg = messages[i].Content])
    ELSE AnthropicScan(messages, i + 1,
             [acc EXCEPT !.turns =
                 Append(@, Turn(IF messages[i].Role = "assistant" THEN "assistant" ELSE "user",
                                messages[i].Content))])

\* The MessageNewParams of anthropicProvider.SendMessage.
AnthropicRequest(p, messages) ==
    LET s == AnthropicScan(messages, 1, [systemMsg |-> "", turns |-> <<>>])
    IN  Request(p.baseURL, p.model, MaxTokens,
                IF s.systemMsg # "" THEN <<s.systemMsg>> ELSE <<>>, s.turns)

\* responseText += textBlock.Text, over the content blocks from i on.
RECURSIVE AllText(_, _)
AllText(texts, i) == IF i > Len(texts) THEN "" ELSE texts[i] \o AllText(texts, i + 1)

\* anthropicProvider.SendMessage, given the backend's answer.
AnthropicSendMessage(p, messages, backend) ==
    IF ~p.enabled
    THEN [text |-> "", err |-> ErrNotEnabled(Name(p)), requests |-> <<>>]
    ELSE IF backend.err # ""
    THEN [text |-> "", err |-> Wrap(Name(p), backend.err),
          requests |-> <<AnthropicRequest(p, messages)>>]
    ELSE [text |-> AllText(backend.texts, 1), err |-> NilErr,
          requests |-> <<AnthropicRequest(p, messages)>>]

\* Provider.SendMessage: the method of the variant the provider is.
ProviderSendMessage(p, messages, backend) ==
    IF Name(p) = "anthropic" THEN AnthropicSendMessage(p, messages, backend)
    ELSE OpenAISendMessage(p, messages, backend)

\* The result of router.SendMessage: what it returns and, in calls, the
\* providers whose SendMessage it invoked.
Sent(r, calls) == [text |-> r.text, err |-> r.err, requests |-> r.requests, calls |-> calls]
NotSent(err) == [text |-> "", err |-> err, requests |-> <<>>, calls |-> <<>>]

\* A SendMessage that wraps the provider's error.
RouterSendMessageWrapping(r, messages, backend) ==
    LET g == GetProvider(r)
    IN  IF g.err # NilErr THEN NotSent(g.err)
        ELSE LET s == ProviderSendMessage(g.provider, messages, backend)
             IN  Sent([s EXCEPT !.err = IF @ = NilErr THEN @ ELSE <<"router", ": ">> \o @],
                      <<Name(g.provider)>>)

\* A SendMessage that calls the selected provider again when it failed.
RouterSendMessageRetrying(r, messages, backend) ==
    LET g == GetProvider(r)
    IN  IF g.err # NilErr THEN NotSent(g.err)
        ELSE LET s == ProviderSendMessage(g.provider, messages, backend)
             IN  IF s.err = NilErr THEN Sent(s, <<Name(g.provider)>>)
                 ELSE Sent(s, <<Name(g.provider), Name(g.provider)>>)

\* router.SendMessage
RouterSendMessage(r, messages, backend) ==
    LET g == GetProvider(r)
    IN  IF g.err # NilErr THEN NotSent(g.err)
        ELSE Sent(ProviderSendMessage(g.provider, messages, backend), <<Name(g.provider)>>)

(***************************************************************************)
(* State.                                                                  *)
(***************************************************************************)
VARIABLES
    mgr,            \* the *manager: path and maxMessages
    mu,             \* manager.mu, a sync.RWMutex
    fs,             \* the session files, by path
    pc,             \* where each task is
    frame,          \* the locals and results of the store call each task is in
    lastWrite,      \* per user, the last Save or Delete that touched the file
    cfg,            \* the *config.Config the router is built from
    env,            \* the process environment
    router,         \* the llm.Router
    rpc,            \* where the router's owner is
    rcall,          \* what the last call on the router, a provider or the
                    \* auth middleware returned; for the middleware also
                    \* the call that has not returned yet
    rc,             \* the locals of the router or provider call each task
                    \* is in, and what its last router call returned
    allowedUsers,   \* Handlers.allowedUsers
    hl,             \* the locals of the handler each task runs
    out             \* what the handler each task runs has sent to its chat

storeVars == <<mgr, mu, fs, pc, frame, lastWrite>>
routerVars == <<cfg, env, router, rpc, rcall, rc>>
handlerVars == <<allowedUsers, hl, out>>
vars == <<storeVars, routerVars, handlerVars>>

NoFrame == [caller |-> "", userID |-> 0, arg |-> <<>>, data |-> <<>>,
            messages |-> <<>>, err |-> "", fault |-> FALSE]
NoWrite == [kind |-> "none", arg |-> <<>>]
\* The record of a Delete that succeeded: the first, or one more in a row.
Deleted(w) ==
    [kind |-> IF w.kind \in {"Delete", "DeleteAgain"} THEN "DeleteAgain" ELSE "Delete",
     arg |-> <<>>]
NoCall == [op |-> "", provider |-> NilProvider, text |-> "", err |-> NilErr,
           messages |-> <<>>, backend |-> BackendOk(<<>>), requests |-> <<>>,
           calls |-> <<>>, providerType |-> ""]
\* What a call on the router returned to its caller.
NoReturn == [op |-> "", provider |-> NilProvider, text |-> "", err |-> NilErr,
             messages |-> <<>>, backend |-> BackendOk(<<>>), overlapped |-> FALSE]
\* The locals of GetProvider and SendMessage: the default index read, the
\* position and the length of the range loop, the provider selected; and,
\* in overlapped, whether another task was inside a router call during
\* this one.
NoRouterCall == [op |-> "", idx |-> -1, i |-> 0, n |-> 0, provider |-> NilProvider,
                 messages |-> <<>>, overlapped |-> FALSE, returned |-> NoReturn]
NoLocals == [userID |-> 0, text |-> "", loaded |-> <<>>, messages |-> <<>>,
             response |-> "", err |-> "", rerr |-> NilErr]

\* No router is built.
NoRouterInit ==
    /\ cfg = NoConfig
    /\ env = NoEnv
    /\ router = NilRouter
    /\ rpc = "none"
    /\ rcall = NoCall
    /\ rc = [t \in Tasks |-> NoRouterCall]

\* No handler runs.
NoHandlerInit ==
    /\ allowedUsers = <<>>
    /\ hl = [t \in Tasks |-> NoLocals]
    /\ out = [t \in Tasks |-> <<>>]

\* The store after NewManager(p, n), for p in paths and n in maxes, with
\* os.MkdirAll failing as faults says; the directory holds no file but one
\* of found for each of users.
InitStore(paths, maxes, faults, users, found) ==
    /\ mgr \in {NewManager(p, n, f).manager : p \in paths, n \in maxes, f \in faults}
    /\ \E x \in found :
          fs = [f \in {sessionPath(mgr, u) : u \in Users} |->
                  IF f \in {sessionPath(mgr, u) : u \in users} THEN x ELSE NoFile]
    /\ mu = [w |-> NoTask, readers |-> {}]
    /\ pc = [t \in Tasks |-> "idle"]
    /\ frame = [t \in Tasks |-> NoFrame]
    /\ lastWrite = [u \in Users |-> NoWrite]

(***************************************************************************)
(* sync.RWMutex.  A writer first takes the writers' mutex, which makes new *)
(* readers wait, and then waits for the readers that are in to leave.      *)
(***************************************************************************)
\* An RLock that does not wait for the writer.
CanRLockWhileWriting(m) == TRUE
CanRLock(m) == m.w = NoTask
RLocked(m, t) == [m EXCEPT !.readers = @ \cup {t}]
\* A Get that returns to its caller still holding the read lock.
RUnlockedNever(m, t) == m
RUnlocked(m, t) == [m EXCEPT !.readers = @ \ {t}]
CanLock(m) == m.w = NoTask
LockPending(m, t) == [m EXCEPT !.w = t]
\* A Lock that does not wait for the readers.
CanEnterAmongReaders(m, t) == m.w = t
CanEnter(m, t) == m.w = t /\ m.readers = {}
\* A return path that leaves the lock held.
UnlockedNever(m, t) == m
Unlocked(m, t) == [m EXCEPT !.w = NoTask]

\* What no step of the store touches.
storeFrame == <<routerVars, allowedUsers, out>>

\* The call's results are in; it is about to return.
Done(t, label, messages, err, fault) ==
    /\ pc' = [pc EXCEPT ![t] = label]
    /\ frame' = [frame EXCEPT ![t].messages = messages, ![t].err = err,
                              ![t].fault = fault]

(***************************************************************************)
(* manager.Get                                                             *)
(***************************************************************************)
CallGet(t, caller, userID) ==
    /\ pc' = [pc EXCEPT ![t] = "g_rlock"]
    /\ frame' = [frame EXCEPT ![t] = [NoFrame EXCEPT !.caller = caller, !.userID = userID]]
    /\ UNCHANGED <<mgr, mu, fs, lastWrite>>

\* m.mu.RLock()
GetRLock(t) ==
    /\ pc[t] = "g_rlock"
    /\ CanRLock(mu)
    /\ mu' = RLocked(mu, t)
    /\ pc' = [pc EXCEPT ![t] = "g_read"]
    /\ UNCHANGED <<mgr, fs, frame, lastWrite, hl, storeFrame>>

\* A Get that takes a file it cannot parse for an empty session.
GetResultLenient(file, fault) ==
    LET r == ReadFile(file, fault)
    IN  IF r.err = "ENOENT" THEN [messages |-> <<>>, err |-> ""]
        ELSE IF r.err # "" THEN [messages |-> <<>>, err |-> ErrRead]
        ELSE [messages |-> Unmarshal(r.data).messages, err |-> ""]

\* Get's body on the file it reads.
GetResult(file, fault) ==
    LET r == ReadFile(file, fault)
    IN  IF r.err = "ENOENT" THEN [messages |-> <<>>, err |-> ""]
        ELSE IF r.err # "" THEN [messages |-> <<>>, err |-> ErrRead]
        ELSE Unmarshal(r.data)

\* os.ReadFile and json.Unmarshal.
GetRead(t) ==
    /\ pc[t] = "g_read"
    /\ \E fault \in BOOLEAN :
          LET r == GetResult(fs[sessionPath(mgr, frame[t].userID)], fault)
          IN  Done(t, "g_done", r.messages, r.err, fault)
    /\ UNCHANGED <<mgr, mu, fs, lastWrite, hl, storeFrame>>

\* return; the deferred m.mu.RUnlock().  In TextMessageHandler:
\* messages, err := h.sessionManager.Get(userID)
GetReturn(t) ==
    /\ pc[t] = "g_done"
    /\ mu' = RUnlocked(mu, t)
    /\ pc' = [pc EXCEPT ![t] = IF frame[t].caller = "api" THEN "idle" ELSE "h_got"]
    /\ hl' = IF frame[t].caller = "api" THEN hl
             ELSE [hl EXCEPT ![t].loaded = frame[t].messages,
                             ![t].messages = frame[t].messages,
                             ![t].err = frame[t].err]
    /\ frame' = [frame EXCEPT ![t] = NoFrame]
    /\ UNCHANGED <<mgr, fs, lastWrite, storeFrame>>

(***************************************************************************)
(* manager.Save                                                            *)
(***************************************************************************)
CallSave(t, caller, userID, messages) ==
    /\ pc' = [pc EXCEPT ![t] = "s_lock"]
    /\ frame' = [frame EXCEPT ![t] =
                  [NoFrame EXCEPT !.caller = caller, !.userID = userID, !.arg = messages]]
    /\ UNCHANGED <<mgr, mu, fs, lastWrite>>

\* m.mu.Lock(): take the writers' mutex.
SaveLock(t) ==
    /\ pc[t] = "s_lock"
    /\ CanLock(mu)
    /\ mu' = LockPending(mu, t)
    /\ pc' = [pc EXCEPT ![t] = "s_wait"]
    /\ UNCHANGED <<mgr, fs, frame, lastWrite, hl, storeFrame>>

\* m.mu.Lock(): the readers have left.
SaveEnter(t) ==
    /\ pc[t] = "s_wait"
    /\ CanEnter(mu, t)
    /\ pc' = [pc EXCEPT ![t] = "s_open"]
    /\ UNCHANGED <<mgr, mu, fs, frame, lastWrite, hl, storeFrame>>

\* The truncation, json.Marshal, and os.WriteFile's open; or the open fails
\* and Save returns the write error, the file untouched.
SaveOpen(t) ==
    /\ pc[t] = "s_open"
    /\ LET u == frame[t].userID
           f == sessionPath(mgr, u)
           data == Marshal(Truncate(frame[t].arg, mgr.maxMessages))
       IN  \/ /\ fs' = [fs EXCEPT ![f] = OpenTrunc(@)]
              /\ lastWrite' = [lastWrite EXCEPT ![u] = [kind |-> "writing", arg |-> <<>>]]
              /\ frame' = [frame EXCEPT ![t].data = data]
              /\ pc' = [pc EXCEPT ![t] = "s_write"]
           \/ /\ Done(t, "s_done", <<>>, ErrWrite, TRUE)
              /\ UNCHANGED <<fs, lastWrite>>
    /\ UNCHANGED <<mgr, mu, hl, storeFrame>>

\* os.WriteFile's write and close.  A failed write leaves part of the data
\* in the file; a close that fails after the write leaves all of it, and
\* Save returns the write error all the same.
SaveWrite(t) ==
    /\ pc[t] = "s_write"
    /\ LET u == frame[t].userID
           f == sessionPath(mgr, u)
       IN  \/ /\ fs' = [fs EXCEPT ![f] = WriteAt0(@, frame[t].data)]
              /\ lastWrite' = [lastWrite EXCEPT ![u] = [kind |-> "Save", arg |-> frame[t].arg]]
              /\ Done(t, "s_done", <<>>, "", FALSE)
           \/ /\ \E part \in PartialWrites(frame[t].data) :
                    fs' = [fs EXCEPT ![f] = WriteAt0(@, part)]
              /\ lastWrite' = [lastWrite EXCEPT ![u] = [kind |-> "failed", arg |-> <<>>]]
              /\ Done(t, "s_done", <<>>, ErrWrite, TRUE)
           \/ /\ fs' = [fs EXCEPT ![f] = WriteAt0(@, frame[t].data)]
              /\ lastWrite' = [lastWrite EXCEPT ![u] =
                                 [kind |-> "unclosed", arg |-> frame[t].arg]]
              /\ Done(t, "s_done", <<>>, ErrWrite, TRUE)
    /\ UNCHANGED <<mgr, mu, hl, storeFrame>>

\* return; the deferred m.mu.Unlock().  In TextMessageHandler:
\* if err := h.sessionManager.Save(userID, messages); err != nil
SaveReturn(t) ==
    /\ pc[t] = "s_done"
    /\ mu' = Unlocked(mu, t)
    /\ pc' = [pc EXCEPT ![t] = IF frame[t].caller = "api" THEN "idle" ELSE "h_saved"]
    /\ hl' = IF frame[t].caller = "api" THEN hl
             ELSE [hl EXCEPT ![t].err = frame[t].err]
    /\ frame' = [frame EXCEPT ![t] = NoFrame]
    /\ UNCHANGED <<mgr, fs, lastWrite, storeFrame>>

(***************************************************************************)
(* manager.Delete                                                          *)
(***************************************************************************)
CallDelete(t, caller, userID) ==
    /\ pc' = [pc EXCEPT ![t] = "d_lock"]
    /\ frame' = [frame EXCEPT ![t] = [NoFrame EXCEPT !.caller = caller, !.userID = userID]]
    /\ UNCHANGED <<mgr, mu, fs, lastWrite>>

\* m.mu.Lock(): take the writers' mutex.
DeleteLock(t) ==
    /\ pc[t] = "d_lock"
    /\ CanLock(mu)
    /\ mu' = LockPending(mu, t)
    /\ pc' = [pc EXCEPT ![t] = "d_wait"]
    /\ UNCHANGED <<mgr, fs, frame, lastWrite, hl, storeFrame>>

\* m.mu.Lock(): the readers have left.
DeleteEnter(t) ==
    /\ pc[t] = "d_wait"
    /\ CanEnter(mu, t)
    /\ pc' = [pc EXCEPT ![t] = "d_remove"]
    /\ UNCHANGED <<mgr, mu, fs, frame, lastWrite, hl, storeFrame>>

\* A Delete without the os.IsNotExist check.
DeleteResultStrict(file, fault) ==
    LET r == Remove(file, fault)
    IN  IF r.err # "" THEN [file |-> r.file, err |-> ErrDelete]
        ELSE [file |-> r.file, err |-> ""]

\* Delete's body on the file it removes: the file afterwards and the error.
DeleteResult(file, fault) ==
    LET r == Remove(file, fault)
    IN  IF r.err = "ENOENT" THEN [file |-> r.file, err |-> ""]
        ELSE IF r.err # "" THEN [file |-> r.file, err |-> ErrDelete]
        ELSE [file |-> r.file, err |-> ""]

\* os.Remove
DeleteRemove(t) ==
    /\ pc[t] = "d_remove"
    /\ \E fault \in BOOLEAN :
          LET u == frame[t].userID
              f == sessionPath(mgr, u)
              r == DeleteResult(fs[f], fault)
          IN  /\ fs' = [fs EXCEPT ![f] = r.file]
              /\ lastWrite' = [lastWrite EXCEPT ![u] =
                                 IF r.err = "" THEN Deleted(@) ELSE @]
              /\ Done(t, "d_done", <<>>, r.err, fault)
    /\ UNCHANGED <<mgr, mu, hl, storeFrame>>

\* return; the deferred m.mu.Unlock().  In ClearHandler:
\* err := h.sessionManager.Delete(userID)
DeleteReturn(t) ==
    /\ pc[t] = "d_done"
    /\ mu' = Unlocked(mu, t)
    /\ pc' = [pc EXCEPT ![t] = IF frame[t].caller = "api" THEN "idle" ELSE "c_deleted"]
    /\ hl' = IF frame[t].caller = "api" THEN hl
             ELSE [hl EXCEPT ![t].err = frame[t].err]
    /\ frame' = [frame EXCEPT ![t] = NoFrame]
    /\ UNCHANGED <<mgr, fs, lastWrite, storeFrame>>

(***************************************************************************)
(* The store under its callers: a task calls Get, Save and Delete in any   *)
(* order, for any user.                                                    *)
(***************************************************************************)
\* main has a Manager: NewManager returned no error.
Constructed == mgr # NilManager

ApiGet(t, users) ==
    /\ pc[t] = "idle"
    /\ Constructed
    /\ \E u \in users : CallGet(t, "api", u)
    /\ UNCHANGED <<hl, storeFrame>>

ApiSave(t, users, args) ==
    /\ pc[t] = "idle"
    /\ Constructed
    /\ \E u \in users, M \in args : CallSave(t, "api", u, M)
    /\ UNCHANGED <<hl, storeFrame>>

ApiDelete(t, users) ==
    /\ pc[t] = "idle"
    /\ Constructed
    /\ \E u \in users : CallDelete(t, "api", u)
    /\ UNCHANGED <<hl, storeFrame>>

\* Concurrent callers.
Init ==
    InitStore({""}, ConcMaxMessages, BOOLEAN, {}, {NoFile})
        /\ NoRouterInit /\ NoHandlerInit

Next ==
    \E t \in Tasks :
        \/ ApiGet(t, Users) \/ ApiSave(t, Users, ConcArgs) \/ ApiDelete(t, Users)
        \/ GetRLock(t) \/ GetRead(t) \/ GetReturn(t)
        \/ SaveLock(t) \/ SaveEnter(t) \/ SaveOpen(t) \/ SaveWrite(t) \/ SaveReturn(t)
        \/ DeleteLock(t) \/ DeleteEnter(t) \/ DeleteRemove(t) \/ DeleteReturn(t)

Spec == Init /\ [][Next]_vars

\* What encoding/json makes of a file: the messages Get returns, or its
\* error.
Foreign(data, messages, err) == [data |-> data, messages |-> messages, err |-> err]

\* Session files that something other than Save has left in the directory,
\* as the tests do with os.WriteFile.
ForeignFiles ==
    { \* invalid json{
      Foreign(<<W("invalid"), W("json"), P("{")>>, <<>>, ErrParse),
      \* null
      Foreign(<<Null>>, <<>>, ""),
      \* {}
      Foreign(<<P("{"), P("}")>>, <<>>, ErrParse),
      \* [{}]
      Foreign(<<P("["), P("{"), P("}"), P("]")>>, <<ZeroMessage>>, ""),
      \* [null,{"Content":"hi","Role":"user"}]
      Foreign(<<P("["), Null, P(","), P("{"), S("Content"), P(":"), S("hi"), P(","),
                S("Role"), P(":"), S("user"), P("}"), P("]")>>,
              <<ZeroMessage, m1>>, ""),
      \* [{"role":"user","CONTENT":"hi"}]
      Foreign(<<P("["), P("{"), S("role"), P(":"), S("user"), P(","),
                S("CONTENT"), P(":"), S("hi"), P("}"), P("]")>>,
              <<m1>>, ""),
      \* [{"Role":"user","Name":["x",{}],"Content":"hi","Role":null}]
      Foreign(<<P("["), P("{"), S("Role"), P(":"), S("user"), P(","),
                S("Name"), P(":"), P("["), S("x"), P(","), P("{"), P("}"), P("]"), P(","),
                S("Content"), P(":"), S("hi"), P(","),
                S("Role"), P(":"), Null, P("}"), P("]")>>,
              <<m1>>, ""),
      \* [{"Role":"assistant","ROLE":"user","Content":"hi"}]
      Foreign(<<P("["), P("{"), S("Role"), P(":"), S("assistant"), P(","),
                S("ROLE"), P(":"), S("user"), P(","),
                S("Content"), P(":"), S("hi"), P("}"), P("]")>>,
              <<m1>>, ""),
      \* [{"Role":1,"Content":"hi"}]
      Foreign(<<P("["), P("{"), S("Role"), P(":"), W("1"), P(","),
                S("Content"), P(":"), S("hi"), P("}"), P("]")>>,
              <<>>, ErrParse) }

\* The users the single caller calls for.
SeqUsers == {101}

\* One caller, one call after the other.
SeqInit ==
    InitStore(ManagerPaths, ManagerMaxMessages, BOOLEAN, SeqUsers,
              {NoFile} \cup {File(x.data) : x \in ForeignFiles})
        /\ NoRouterInit /\ NoHandlerInit

SeqNext ==
    \E t \in {1} :
        \/ ApiGet(t, SeqUsers) \/ ApiSave(t, SeqUsers, SaveArgs) \/ ApiDelete(t, SeqUsers)
        \/ GetRLock(t) \/ GetRead(t) \/ GetReturn(t)
        \/ SaveLock(t) \/ SaveEnter(t) \/ SaveOpen(t) \/ SaveWrite(t) \/ SaveReturn(t)
        \/ DeleteLock(t) \/ DeleteEnter(t) \/ DeleteRemove(t) \/ DeleteReturn(t)

SeqSpec == SeqInit /\ [][SeqNext]_vars

(***************************************************************************)
(* The router: built at startup by NewRouter, or by newRouter as the       *)
(* package's tests do, and then called.                                    *)
(***************************************************************************)
\* The providers a test hands to newRouter: position i is named after the
\* i-th backend, each enabled or not.
TestNames == <<"openai", "anthropic", "ollama", "openrouter", "opencode">>
TestProviders(n) ==
    {[i \in 1 .. n |-> Provider(TestNames[i], e[i], "model-x", "")] : e \in [1 .. n -> BOOLEAN]}
TestRouters ==
    {newRouter(ps, d) : ps \in UNION {TestProviders(n) : n \in 0 .. MaxProviders},
                        d \in -1 .. MaxProviders}

\* The answers of a backend.
BackendAnswers ==
    {BackendOk(<<>>), BackendOk(<<"hello">>), BackendOk(<<"">>),
     BackendErr("context deadline exceeded"), BackendErr("context canceled"),
     BackendErr("i/o timeout"), BackendErr("500 Internal Server Error")}

\* The conversations sent through the router.
RouterChats == {<<m1>>, <<m1, m2, m1>>}

\* Before main builds the router from a configuration, or before a test
\* builds one from providers of its own.
RouterInit ==
    /\ \/ cfg \in Configs /\ env \in Envs /\ rpc = "start"
       \/ cfg = NoConfig /\ env = NoEnv /\ rpc = "test"
    /\ router = NilRouter
    /\ rcall = NoCall
    /\ rc = [t \in Tasks |-> NoRouterCall]
    /\ InitStore({""}, {0}, {FALSE}, {}, {NoFile})
    /\ NoHandlerInit

\* main: llm.NewRouter(cfg); log.Fatalf on an error.
Startup ==
    /\ rpc = "start"
    /\ LET r == NewRouter(cfg, env)
       IN  /\ router' = r.router
           /\ rcall' = [NoCall EXCEPT !.op = "NewRouter", !.err = r.err]
           /\ rpc' = IF r.err = NilErr THEN "ready" ELSE "failed"
    /\ UNCHANGED <<cfg, env, rc, storeVars, handlerVars>>

\* The tests' newRouter(providers, defaultIdx).
TestStartup ==
    /\ rpc = "test"
    /\ router' \in TestRouters
    /\ rcall' = [NoCall EXCEPT !.op = "newRouter"]
    /\ rpc' = "ready"
    /\ UNCHANGED <<cfg, env, rc, storeVars, handlerVars>>

\* router.GetProvider()
CallGetProvider ==
    /\ rpc = "ready"
    /\ LET g == GetProvider(router)
       IN  rcall' = [NoCall EXCEPT !.op = "GetProvider", !.provider = g.provider,
                                   !.err = g.err]
    /\ UNCHANGED <<cfg, env, rc, router, rpc, storeVars, handlerVars>>

\* router.SendMessage(ctx, messages), called by task t, up to the wait for
\* the backend inside provider.SendMessage: a call that issues no request
\* (no provider selected) returns at once, whatever the backend would have
\* answered; a call that issues one waits, and meanwhile other calls run.
CallSendMessage(t) ==
    /\ rpc = "ready"
    /\ rc[t].op = ""
    /\ \E messages \in RouterChats :
          IF RouterSendMessage(router, messages, BackendOk(<<>>)).requests = <<>>
          THEN /\ \E backend \in BackendAnswers :
                     LET r == RouterSendMessage(router, messages, backend)
                     IN  rcall' = [op |-> "SendMessage", provider |-> NilProvider,
                                   text |-> r.text, err |-> r.err, messages |-> messages,
                                   backend |-> backend, requests |-> r.requests,
                                   calls |-> r.calls, providerType |-> ""]
               /\ rc' = rc
          ELSE /\ rc' = [rc EXCEPT ![t] =
                            [NoRouterCall EXCEPT !.op = "SendMessage",
                                                 !.provider = GetProvider(router).provider,
                                                 !.messages = messages]]
               /\ rcall' = rcall
    /\ UNCHANGED <<cfg, env, router, rpc, storeVars, handlerVars>>

\* The backend answers the request of task t's SendMessage, or the request
\* fails; provider.SendMessage and router.SendMessage return.
SendMessageAnswered(t) ==
    /\ rpc = "ready"
    /\ rc[t].op = "SendMessage"
    /\ \E backend \in BackendAnswers :
          LET r == RouterSendMessage(router, rc[t].messages, backend)
          IN  rcall' = [op |-> "SendMessage", provider |-> NilProvider,
                        text |-> r.text, err |-> r.err, messages |-> rc[t].messages,
                        backend |-> backend, requests |-> r.requests,
                        calls |-> r.calls, providerType |-> ""]
    /\ rc' = [rc EXCEPT ![t] = NoRouterCall]
    /\ UNCHANGED <<cfg, env, router, rpc, storeVars, handlerVars>>

RouterNext ==
    \/ Startup \/ TestStartup \/ CallGetProvider
    \/ \E t \in Tasks : CallSendMessage(t) \/ SendMessageAnswered(t)

RouterSpec == RouterInit /\ [][RouterNext]_vars

(***************************************************************************)
(* The router shared by concurrent callers: every handler goroutine calls   *)
(* GetProvider or SendMessage on the one Router main built, with no lock.   *)
(* A call is the sequence of its reads of the Router and of the providers;  *)
(* the reads of two calls interleave in every order.                        *)
(***************************************************************************)
\* The answers of a backend to the calls that overlap.
ConcBackends == {BackendOk(<<"hello">>), BackendErr("context canceled")}

\* The routers the concurrent callers share: the tests' routers, and the
\* ones NewRouter builds from the configuration with every flag set, under
\* every environment (ollama, which needs no key, is always enabled).
ConcRouters ==
    TestRouters \cup
    {NewRouter([b \in Backends |-> [Enabled |-> TRUE, DefaultModel |-> "model-x"]], e).router :
        e \in Envs}

InRouterCall(t) == pc[t] \in {"r_default", "r_check", "r_scan", "r_sending"}

\* Another task is inside a router call.
Overlaps(t) == \E u \in Tasks \ {t} : InRouterCall(u)

\* The unchanged part of a step that only reads the Router.
readFrame == <<cfg, env, router, rpc, rcall, mgr, mu, fs, frame, lastWrite, handlerVars>>

RouterConcInit ==
    /\ cfg = NoConfig
    /\ env = NoEnv
    /\ router \in ConcRouters
    /\ rpc = "ready"
    /\ rcall = NoCall
    /\ rc = [t \in Tasks |-> NoRouterCall]
    /\ InitStore({""}, {0}, {FALSE}, {}, {NoFile})
    /\ NoHandlerInit

\* A task calls router.GetProvider().
BeginGetProvider(t) ==
    /\ pc[t] = "idle"
    /\ pc' = [pc EXCEPT ![t] = "r_default"]
    /\ rc' = [rc EXCEPT ![t] = [NoRouterCall EXCEPT !.op = "GetProvider",
                                                    !.overlapped = Overlaps(t),
                                                    !.returned = rc[t].returned]]
    /\ UNCHANGED readFrame

\* A task calls router.SendMessage(ctx, messages), which calls GetProvider.
BeginSendMessage(t) ==
    /\ pc[t] = "idle"
    /\ pc' = [pc EXCEPT ![t] = "r_default"]
    /\ rc' = [rc EXCEPT ![t] = [NoRouterCall EXCEPT !.op = "SendMessage",
                                                    !.messages = <<m1>>,
                                                    !.overlapped = Overlaps(t),
                                                    !.returned = rc[t].returned]]
    /\ UNCHANGED readFrame

\* GetProvider returns (provider, err) to its caller: to the task, or to
\* SendMessage, which returns "", err on an error and calls
\* provider.SendMessage otherwise.
GetProviderReturns(t, provider, err) ==
    IF rc[t].op = "SendMessage" /\ err = NilErr
    THEN /\ pc' = [pc EXCEPT ![t] = "r_sending"]
         /\ rc' = [rc EXCEPT ![t].provider = provider,
                             ![t].overlapped = @ \/ Overlaps(t)]
    ELSE /\ pc' = [pc EXCEPT ![t] = "idle"]
         /\ rc' = [rc EXCEPT ![t] =
                      [NoRouterCall EXCEPT !.returned =
                          [NoReturn EXCEPT !.op = rc[t].op, !.provider = provider,
                                           !.err = err, !.messages = rc[t].messages,
                                           !.overlapped = rc[t].overlapped \/ Overlaps(t)]]]

\* The range loop of GetProvider begins: the slice r.providers is read.
BeginScan(t) ==
    /\ pc' = [pc EXCEPT ![t] = "r_scan"]
    /\ rc' = [rc EXCEPT ![t].i = 1, ![t].n = Len(router.providers),
                        ![t].overlapped = @ \/ Overlaps(t)]

\* "if r.defaultIdx >= 0 && r.defaultIdx < len(r.providers)"
GetProviderDefault(t) ==
    /\ pc[t] = "r_default"
    /\ IF router.defaultIdx >= 0 /\ router.defaultIdx < Len(router.providers)
       THEN /\ pc' = [pc EXCEPT ![t] = "r_check"]
            /\ rc' = [rc EXCEPT ![t].idx = router.defaultIdx,
                                ![t].overlapped = @ \/ Overlaps(t)]
       ELSE BeginScan(t)
    /\ UNCHANGED readFrame

\* A GetProvider that moves the default index on to the next provider when
\* it has returned the default one.
GetProviderCheckRotating(t) ==
    /\ pc[t] = "r_check"
    /\ LET provider == router.providers[rc[t].idx + 1]
       IN  IF IsEnabled(provider)
           THEN /\ GetProviderReturns(t, provider, NilErr)
                /\ router' = [router EXCEPT !.defaultIdx = (@ + 1) % Len(router.providers)]
           ELSE BeginScan(t) /\ router' = router
    /\ UNCHANGED <<cfg, env, rpc, rcall, mgr, mu, fs, frame, lastWrite, handlerVars>>

\* "provider := r.providers[r.defaultIdx]; if provider.IsEnabled() { return
\* provider, nil }"
GetProviderCheck(t) ==
    /\ pc[t] = "r_check"
    /\ LET provider == router.providers[rc[t].idx + 1]
       IN  IF IsEnabled(provider)
           THEN GetProviderReturns(t, provider, NilErr)
           ELSE BeginScan(t)
    /\ UNCHANGED readFrame

\* One turn of "for _, p := range r.providers { if p.IsEnabled() { return
\* p, nil } }", and the return after the loop.
GetProviderScan(t) ==
    /\ pc[t] = "r_scan"
    /\ IF rc[t].i > rc[t].n
       THEN GetProviderReturns(t, NilProvider, ErrNoProvider)
       ELSE IF IsEnabled(router.providers[rc[t].i])
       THEN GetProviderReturns(t, router.providers[rc[t].i], NilErr)
       ELSE /\ rc' = [rc EXCEPT ![t].i = @ + 1, ![t].overlapped = @ \/ Overlaps(t)]
            /\ pc' = pc
    /\ UNCHANGED readFrame

\* "return provider.SendMessage(ctx, messages)": the provider selected has
\* the backend's answer and SendMessage returns it.
ProviderReturned(t) ==
    /\ pc[t] = "r_sending"
    /\ \E backend \in ConcBackends :
          LET s == ProviderSendMessage(rc[t].provider, rc[t].messages, backend)
          IN  rc' = [rc EXCEPT ![t] =
                        [NoRouterCall EXCEPT !.returned =
                            [op |-> "SendMessage", provider |-> rc[t].provider,
                             text |-> s.text, err |-> s.err,
                             messages |-> rc[t].messages, backend |-> backend,
                             overlapped |-> rc[t].overlapped \/ Overlaps(t)]]]
    /\ pc' = [pc EXCEPT ![t] = "idle"]
    /\ UNCHANGED readFrame

RouterConcNext ==
    \E t \in Tasks :
        \/ BeginGetProvider(t) \/ BeginSendMessage(t)
        \/ GetProviderDefault(t) \/ GetProviderCheck(t) \/ GetProviderScan(t)
        \/ ProviderReturned(t)

RouterConcSpec == RouterConcInit /\ [][RouterConcNext]_vars


(***************************************************************************)
(* One provider on its own: built by NewProvider from a configuration and   *)
(* the environment, then sent conversations, as the provider tests do.      *)
(***************************************************************************)
\* The longest conversation sent to a provider.
MaxChat == 3

\* The roles of the input messages; "tool" is a role no provider knows.
Roles == {"system", "user", "assistant", "tool"}
Contents == <<"c1", "c2", "c3", "c4">>

\* The conversations: every sequence of roles up to MaxChat, the content of
\* a message naming its position.
ChatInputs ==
    {[i \in 1 .. n |-> Message(rs[i], Contents[i])] :
        n \in 0 .. 0, rs \in {<<>>}}
    \cup UNION {{[i \in 1 .. n |-> Message(rs[i], Contents[i])] : rs \in [1 .. n -> Roles]} :
                  n \in 1 .. MaxChat}

\* What the backend answers to a provider's request: the text of each choice
\* (OpenAI style) or content block (Anthropic), or the SDK's error for a
\* network failure, a non-success status, an unparseable body or a ctx
\* cancelled while the request is out.
ProviderAnswers ==
    {BackendOk(<<>>), BackendOk(<<"hello">>), BackendOk(<<"hel", "lo">>),
     BackendErr("i/o timeout"), BackendErr("500 Internal Server Error"),
     BackendErr("invalid character '<' looking for beginning of value"),
     BackendErr("context canceled")}

\* The configurations and environments a provider is built from: no flag,
\* every flag or one flag set; no key, every key or one key set.
ProviderConfigs ==
    {[b \in Backends |-> [Enabled |-> b \in on, DefaultModel |-> m]] :
        on \in {{}, Backends} \cup {{b} : b \in Backends}, m \in Models}
ProviderEnvs ==
    {[k \in EnvKeys |-> IF k \in set THEN "sk-test" ELSE ""] :
        set \in {{}, EnvKeys} \cup {{k} : k \in EnvKeys}}

ProviderTypes ==
    {"openai", "anthropic", "ollama", "openrouter", "opencode", "gemini", "OpenAI", ""}

\* A NewProvider whose switch falls back to openai for a name it does not
\* know.
NewProviderDefaulting(c, e, providerType) ==
    CASE providerType = "anthropic" -> [provider |-> NewAnthropicProvider(c, e), err |-> NilErr]
      [] providerType = "ollama" -> [provider |-> NewOllamaProvider(c, e), err |-> NilErr]
      [] providerType = "openrouter" -> [provider |-> NewOpenRouterProvider(c, e), err |-> NilErr]
      [] providerType = "opencode" -> [provider |-> NewOpenCodeProvider(c, e), err |-> NilErr]
      [] OTHER -> [provider |-> NewOpenAIProvider(c, e), err |-> NilErr]

\* NewProvider(cfg, providerType)
NewProvider(c, e, providerType) ==
    CASE providerType = "openai" -> [provider |-> NewOpenAIProvider(c, e), err |-> NilErr]
      [] providerType = "anthropic" -> [provider |-> NewAnthropicProvider(c, e), err |-> NilErr]
      [] providerType = "ollama" -> [provider |-> NewOllamaProvider(c, e), err |-> NilErr]
      [] providerType = "openrouter" -> [provider |-> NewOpenRouterProvider(c, e), err |-> NilErr]
      [] providerType = "opencode" -> [provider |-> NewOpenCodeProvider(c, e), err |-> NilErr]
      [] OTHER -> [provider |-> NilProvider,
                   err |-> <<"unknown provider type: ", providerType>>]

ProviderInit ==
    /\ cfg \in ProviderConfigs
    /\ env \in ProviderEnvs
    /\ rpc = "unbuilt"
    /\ router = NilRouter
    /\ rcall = NoCall
    /\ rc = [t \in Tasks |-> NoRouterCall]
    /\ InitStore({""}, {0}, {FALSE}, {}, {NoFile})
    /\ NoHandlerInit

\* provider, err := NewProvider(cfg, providerType); the provider is kept in
\* rcall.provider.
CallNewProvider ==
    /\ rpc = "unbuilt"
    /\ \E providerType \in ProviderTypes :
          LET n == NewProvider(cfg, env, providerType)
          IN  /\ rcall' = [NoCall EXCEPT !.op = "NewProvider", !.provider = n.provider,
                                          !.err = n.err, !.providerType = providerType]
              /\ rpc' = IF n.err = NilErr THEN "built" ELSE "failed"
    /\ UNCHANGED <<cfg, env, rc, router, storeVars, handlerVars>>

\* provider.SendMessage(ctx, messages), one call on the provider built, up
\* to the wait for the backend: a call that issues no request (the provider
\* is not enabled) returns at once, whatever the backend would have
\* answered; a call that issues one waits. A provider keeps no state
\* between calls.
CallProviderSendMessage ==
    /\ rpc = "built"
    /\ \E messages \in ChatInputs :
          IF ProviderSendMessage(rcall.provider, messages, BackendOk(<<>>)).requests = <<>>
          THEN /\ \E backend \in ProviderAnswers :
                     LET r == ProviderSendMessage(rcall.provider, messages, backend)
                     IN  rcall' = [op |-> "Provider.SendMessage", provider |-> rcall.provider,
                                   text |-> r.text, err |-> r.err, messages |-> messages,
                                   backend |-> backend, requests |-> r.requests,
                                   calls |-> <<>>, providerType |-> rcall.providerType]
               /\ rc' = rc
               /\ rpc' = "sent"
          ELSE /\ rc' = [rc EXCEPT ![1] =
                            [NoRouterCall EXCEPT !.op = "Provider.SendMessage",
                                                 !.provider = rcall.provider,
                                                 !.messages = messages]]
               /\ rcall' = rcall
               /\ rpc' = "sending"
    /\ UNCHANGED <<cfg, env, router, storeVars, handlerVars>>

\* The backend answers the provider's request, or the request fails (a
\* network failure, a non-success status, a cancelled or expired ctx);
\* provider.SendMessage returns.
ProviderAnswered ==
    /\ rpc = "sending"
    /\ rpc' = "sent"
    /\ \E backend \in ProviderAnswers :
          LET r == ProviderSendMessage(rcall.provider, rc[1].messages, backend)
          IN  rcall' = [op |-> "Provider.SendMessage", provider |-> rcall.provider,
                        text |-> r.text, err |-> r.err, messages |-> rc[1].messages,
                        backend |-> backend, requests |-> r.requests,
                        calls |-> <<>>, providerType |-> rcall.providerType]
    /\ rc' = [rc EXCEPT ![1] = NoRouterCall]
    /\ UNCHANGED <<cfg, env, router, storeVars, handlerVars>>

ProviderNext == CallNewProvider \/ CallProviderSendMessage \/ ProviderAnswered

ProviderSpec == ProviderInit /\ [][ProviderNext]_vars

(***************************************************************************)
(* The handlers: each update runs its handler in a task of its own, on the *)
(* one store and the one router.                                           *)
(***************************************************************************)
HandlerMaxMessages == 4

\* The users the updates come from.
UpdateUsers == {101}

\* The text of the update each task handles.
UpdateText == <<"q1", "q2">>

\* Which of the texts the handler looks for occur in a part of an error.
Occurs(part) ==
    CASE part = "no LLM provider enabled" -> {"no LLM provider enabled"}
      [] part = "context deadline exceeded" -> {"context deadline"}
      [] part = "context canceled" -> {"context canceled"}
      [] part = "i/o timeout" -> {"timeout"}
      [] OTHER -> {}

\* contains(err.Error(), substr)
contains(s, substr) == \E i \in 1 .. Len(s) : substr \in Occurs(s[i])

\* checkAuth, for an update that carries a message from userID.
checkAuth(allowed, userID) ==
    IF Len(allowed) = 0 THEN TRUE
    ELSE IF userID = 0 THEN FALSE
    ELSE \E i \in 1 .. Len(allowed) : allowed[i] = userID

\* An error reply with no silent case: a cancelled request is reported too.
ErrorReplyAlways(err) ==
    IF contains(err, "no LLM provider enabled")
    THEN <<"No LLM provider enabled. Please check configuration.">>
    ELSE IF contains(err, "timeout") \/ contains(err, "context deadline")
    THEN <<"Request timed out. Please try again.">>
    ELSE <<"Error communicating with AI">>

\* The text TextMessageHandler sends for an error of router.SendMessage;
\* <<>> when it sends nothing.
ErrorReply(err) ==
    IF contains(err, "no LLM provider enabled")
    THEN <<"No LLM provider enabled. Please check configuration.">>
    ELSE IF contains(err, "timeout") \/ contains(err, "context deadline")
    THEN <<"Request timed out. Please try again.">>
    ELSE IF contains(err, "context canceled") THEN <<>>
    ELSE <<"Error communicating with AI">>

\* The handler's last statement: with a text to send it hands the text to
\* sender.SendMessage(ctx, ...) and waits there for Telegram's answer; with
\* none it returns.
Finish(t, text) ==
    /\ pc' = [pc EXCEPT ![t] = IF text = <<>> THEN "idle" ELSE "h_sending"]
    /\ hl' = [hl EXCEPT ![t] = IF text = <<>> THEN NoLocals ELSE @]
    /\ out' = [out EXCEPT ![t] = text]

\* sender.SendMessage returns, its results unused, and the handler returns.
MessageSent(t) ==
    /\ pc[t] = "h_sending"
    /\ pc' = [pc EXCEPT ![t] = "idle"]
    /\ hl' = [hl EXCEPT ![t] = NoLocals]
    /\ UNCHANGED <<mgr, mu, fs, frame, lastWrite, out, routerVars, allowedUsers>>

\* The texts of /start and /help.
StartText ==
    "Welcome to Helpi! I'm here to help you interact with AI models.\n\nAvailable commands:\n/start - Show this welcome message\n/help - Get detailed help\n/myid - Get your Telegram ID\n/model - Show current model info\n/clear - Clear your conversation history\n\nJust send me a message and I'll respond using the configured AI provider."
HelpText ==
    "Available commands:\n\n/start - Welcome message\n/help - Show this help message\n/myid - Get your Telegram user ID\n/model - Display current active provider and all available providers\n/clear - Clear your conversation history\n\nHow it works:\n- Send me any message and I'll forward it to the AI\n- Your conversation history is preserved between messages\n- Use /clear to start a fresh conversation"

\* A handler that, past checkAuth, sends one text: text[u] to sender u.
Command(t, text) ==
    /\ pc[t] = "idle"
    /\ Constructed
    /\ \E u \in UpdateUsers :
          IF checkAuth(allowedUsers, u)
          THEN Finish(t, text[u])
          ELSE UNCHANGED <<pc, hl, out>>
    /\ UNCHANGED <<mgr, mu, fs, frame, lastWrite, routerVars, allowedUsers>>

StartHandler(t) == Command(t, [u \in UpdateUsers |-> <<StartText>>])

HelpHandler(t) == Command(t, [u \in UpdateUsers |-> <<HelpText>>])

\* The character U+0060, which the text of /myid puts around the id.
Backquote == "U+0060"

\* fmt.Sprintf of the id of the sender, update.Message.From.ID, in decimal.
MyIDHandler(t) ==
    Command(t, [u \in UpdateUsers |->
                  <<"Your Telegram ID: ", Backquote, ToString(u), Backquote>>])

\* The text of ModelHandler: the name of the provider h.router.GetProvider()
\* returns, or the error text when it fails.
ModelHandler(t) ==
    LET g == GetProvider(router)
    IN  Command(t, [u \in UpdateUsers |->
                      IF g.err # NilErr
                      THEN <<"Error: No LLM provider enabled">>
                      ELSE <<"Active provider: ", Name(g.provider)>>])

\* TextMessageHandler up to sender.SendChatAction(ctx, ...): past checkAuth
\* it asks Telegram to show the typing action and waits there for the answer.
TextMessageHandler(t) ==
    /\ pc[t] = "idle"
    /\ Constructed
    /\ \E u \in UpdateUsers :
          IF checkAuth(allowedUsers, u)
          THEN /\ pc' = [pc EXCEPT ![t] = "h_typing"]
               /\ hl' = [hl EXCEPT ![t] = [NoLocals EXCEPT !.userID = u,
                                                           !.text = UpdateText[t]]]
               /\ out' = [out EXCEPT ![t] = <<>>]
          ELSE UNCHANGED <<pc, hl, out>>
    /\ UNCHANGED <<mgr, mu, fs, frame, lastWrite, routerVars, allowedUsers>>

\* sender.SendChatAction returns, its results unused, and the handler calls
\* h.sessionManager.Get(userID).
ChatActionSent(t) ==
    /\ pc[t] = "h_typing"
    /\ CallGet(t, "text", hl[t].userID)
    /\ UNCHANGED <<hl, out, routerVars, allowedUsers>>

\* messages = append(messages, llm.Message{Role: "user", Content: text})
WithUserTurn(messages, text) == Append(messages, Message("user", text))

\* A handler that keeps the reply alone.
WithReplyAlone(messages, response) == <<Message("assistant", response)>>

\* messages = append(messages, llm.Message{Role: "assistant", Content: response})
WithReply(messages, response) == Append(messages, Message("assistant", response))

\* From Get's return into h.router.SendMessage(ctx, messages): the user's
\* turn is appended, GetProvider selects, and the provider issues its
\* request and blocks on the backend; ctx is the handler's own, with no
\* deadline added.
TextMessageGot(t) ==
    /\ pc[t] = "h_got"
    /\ IF hl[t].err # ""
       THEN /\ Finish(t, <<"Error loading conversation history">>)
            /\ UNCHANGED <<mgr, mu, fs, frame, lastWrite>>
       ELSE LET asked == WithUserTurn(hl[t].messages, hl[t].text)
                g == GetProvider(router)
            IN  IF g.err # NilErr
                THEN /\ Finish(t, ErrorReply(g.err))
                     /\ UNCHANGED <<mgr, mu, fs, frame, lastWrite>>
                ELSE /\ pc' = [pc EXCEPT ![t] = "h_waiting"]
                     /\ hl' = [hl EXCEPT ![t].messages = asked]
                     /\ UNCHANGED <<mgr, mu, fs, frame, lastWrite, out>>
    /\ UNCHANGED <<routerVars, allowedUsers>>

\* The backend answers, or the request fails, and router.SendMessage
\* returns its response and error to the handler.
TextMessageAnswered(t) ==
    /\ pc[t] = "h_waiting"
    /\ \E backend \in BackendAnswers :
          LET r == RouterSendMessage(router, hl[t].messages, backend)
          IN  hl' = [hl EXCEPT ![t].response = r.text, ![t].rerr = r.err]
    /\ pc' = [pc EXCEPT ![t] = "h_answered"]
    /\ UNCHANGED <<mgr, mu, fs, frame, lastWrite, out, routerVars, allowedUsers>>

\* From router.SendMessage's return to h.sessionManager.Save(userID,
\* messages): an error or an empty response ends the turn, else the
\* assistant's turn is appended.
TextMessageReplied(t) ==
    /\ pc[t] = "h_answered"
    /\ IF hl[t].rerr # NilErr
       THEN /\ Finish(t, ErrorReply(hl[t].rerr))
            /\ UNCHANGED <<mgr, mu, fs, frame, lastWrite>>
       ELSE IF hl[t].response = ""
       THEN /\ Finish(t, <<"Empty response from AI">>)
            /\ UNCHANGED <<mgr, mu, fs, frame, lastWrite>>
       ELSE LET messages == WithReply(hl[t].messages, hl[t].response)
            IN  /\ CallSave(t, "text", hl[t].userID, messages)
                /\ hl' = [hl EXCEPT ![t].messages = messages]
                /\ out' = [out EXCEPT ![t] = <<>>]
    /\ UNCHANGED <<routerVars, allowedUsers>>

\* From Save's return on: its error is only logged, the response is sent.
TextMessageSaved(t) ==
    /\ pc[t] = "h_saved"
    /\ Finish(t, <<hl[t].response>>)
    /\ UNCHANGED <<mgr, mu, fs, frame, lastWrite, routerVars, allowedUsers>>

\* ClearHandler up to h.sessionManager.Delete(userID).
ClearHandler(t) ==
    /\ pc[t] = "idle"
    /\ Constructed
    /\ \E u \in UpdateUsers :
          IF checkAuth(allowedUsers, u)
          THEN /\ CallDelete(t, "clear", u)
               /\ hl' = [hl EXCEPT ![t] = [NoLocals EXCEPT !.userID = u]]
               /\ out' = [out EXCEPT ![t] = <<>>]
          ELSE UNCHANGED <<storeVars, hl, out>>
    /\ UNCHANGED <<routerVars, allowedUsers>>

\* From Delete's return on.
ClearDeleted(t) ==
    /\ pc[t] = "c_deleted"
    /\ Finish(t, IF hl[t].err # "" THEN <<"Error clearing session: ", hl[t].err>>
                 ELSE <<"Conversation history cleared.">>)
    /\ UNCHANGED <<mgr, mu, fs, frame, lastWrite, routerVars, allowedUsers>>

\* The routers the handlers run on: one whose provider is enabled, one
\* whose provider is not.
HandlerRouters == {newRouter(ps, 0) : ps \in TestProviders(1)}

HandlerInit ==
    /\ InitStore({""}, {HandlerMaxMessages}, BOOLEAN, {}, {NoFile})
    /\ cfg = NoConfig
    /\ env = NoEnv
    /\ router \in HandlerRouters
    /\ rpc = "ready"
    /\ rcall = NoCall
    /\ rc = [t \in Tasks |-> NoRouterCall]
    /\ allowedUsers \in {<<101>>, <<102>>}
    /\ hl = [t \in Tasks |-> NoLocals]
    /\ out = [t \in Tasks |-> <<>>]

HandlerNext ==
    \E t \in Tasks :
        \/ StartHandler(t) \/ HelpHandler(t) \/ MyIDHandler(t) \/ ModelHandler(t)
        \/ TextMessageHandler(t) \/ ChatActionSent(t)
        \/ TextMessageGot(t) \/ TextMessageAnswered(t)
        \/ TextMessageReplied(t) \/ TextMessageSaved(t)
        \/ ClearHandler(t) \/ ClearDeleted(t)
        \/ MessageSent(t)
        \/ GetRLock(t) \/ GetRead(t) \/ GetReturn(t)
        \/ SaveLock(t) \/ SaveEnter(t) \/ SaveOpen(t) \/ SaveWrite(t) \/ SaveReturn(t)
        \/ DeleteLock(t) \/ DeleteEnter(t) \/ DeleteRemove(t) \/ DeleteReturn(t)

HandlerSpec == HandlerInit /\ [][HandlerNext]_vars

\* The steps of task t that need nothing but the processor: the steps of
\* the store calls and of the handlers between them, up to the call of
\* sender.SendMessage.  Not among them: the arrival of an update, the return
\* of router.SendMessage, which waits for the backend, and the returns of
\* sender.SendChatAction and sender.SendMessage, which wait for Telegram;
\* ctx bounds none of them.
Running(t) ==
    \/ TextMessageGot(t) \/ TextMessageReplied(t) \/ TextMessageSaved(t)
    \/ ClearDeleted(t)
    \/ GetRLock(t) \/ GetRead(t) \/ GetReturn(t)
    \/ SaveLock(t) \/ SaveEnter(t) \/ SaveOpen(t) \/ SaveWrite(t) \/ SaveReturn(t)
    \/ DeleteLock(t) \/ DeleteEnter(t) \/ DeleteRemove(t) \/ DeleteReturn(t)

\* The handlers under the Go scheduler, which runs every goroutine that
\* can run; nothing in main or in the handlers bounds the wait for the
\* backend (main's ctx is context.WithCancel(context.Background())).
HandlerFairInit ==
    /\ InitStore({""}, {1}, {FALSE}, {}, {NoFile})
    /\ cfg = NoConfig
    /\ env = NoEnv
    /\ router \in HandlerRouters
    /\ rpc = "ready"
    /\ rcall = NoCall
    /\ rc = [t \in Tasks |-> NoRouterCall]
    /\ allowedUsers = <<>>
    /\ hl = [t \in Tasks |-> NoLocals]
    /\ out = [t \in Tasks |-> <<>>]

HandlerFairSpec ==
    HandlerFairInit /\ [][HandlerNext]_vars /\ \A t \in Tasks : SF_vars(Running(t))

\* The store's callers under the Go scheduler: a goroutine that can run
\* does run, and one that waits for the lock gets it when it is released
\* again and again (sync.Mutex hands the lock to a starving waiter).
FairInit ==
    InitStore({""}, {0}, BOOLEAN, {}, {NoFile}) /\ NoRouterInit /\ NoHandlerInit

\* What the callers save while the scheduling is looked at.
FairArgs == {<<m1>>}

FairNext ==
    \E t \in Tasks :
        \/ ApiGet(t, Users) \/ ApiSave(t, Users, FairArgs) \/ ApiDelete(t, Users)
        \/ GetRLock(t) \/ GetRead(t) \/ GetReturn(t)
        \/ SaveLock(t) \/ SaveEnter(t) \/ SaveOpen(t) \/ SaveWrite(t) \/ SaveReturn(t)
        \/ DeleteLock(t) \/ DeleteEnter(t) \/ DeleteRemove(t) \/ DeleteReturn(t)

FairSpec == FairInit /\ [][FairNext]_vars /\ \A t \in Tasks : SF_vars(Running(t))

(***************************************************************************)
(* The auth middleware, wrapped around a next handler as its tests do, and  *)
(* one task running the handlers, which check the sender themselves.       *)
(***************************************************************************)
\* The part of an update that names a sender: From.ID and the chat's ID
\* (for a CallbackQuery, 0 when it carries no message); NoPart is nil.
NoPart == [from |-> 0, chat |-> 0]
Parts == {[from |-> u, chat |-> c] : u \in {101, 102}, c \in {0, 7}}

\* The updates: Message, CallbackQuery and EditedMessage each nil or set.
Updates ==
    {[Message |-> m, CallbackQuery |-> c, EditedMessage |-> e] :
        m \in {NoPart} \cup {x \in Parts : x.chat # 0},
        c \in {NoPart} \cup {x \in Parts : x.from = 102},
        e \in {NoPart} \cup {x \in Parts : x.from = 101 /\ x.chat # 0}}

\* The allow-lists the middleware and the handlers are made with.
AuthLists == {<<>>, <<101>>, <<102>>, <<103>>, <<102, 101>>}

\* AuthMiddleware.extractUserID
extractUserID(update) ==
    IF update.Message # NoPart THEN update.Message.from
    ELSE IF update.CallbackQuery # NoPart THEN update.CallbackQuery.from
    ELSE IF update.EditedMessage # NoPart THEN update.EditedMessage.from
    ELSE 0

\* AuthMiddleware.getChatID
getChatID(update) ==
    IF update.Message # NoPart THEN update.Message.chat
    ELSE IF update.CallbackQuery # NoPart
    THEN IF update.CallbackQuery.chat # 0 THEN update.CallbackQuery.chat
         ELSE update.CallbackQuery.from
    ELSE IF update.EditedMessage # NoPart THEN update.EditedMessage.chat
    ELSE 0

\* An isAuthorized that looks the sender up without the userID == 0 check.
isAuthorizedLookupOnly(allowed, update) ==
    \/ Len(allowed) = 0
    \/ extractUserID(update) = 0
    \/ \E i \in 1 .. Len(allowed) : allowed[i] = extractUserID(update)

\* AuthMiddleware.isAuthorized
isAuthorized(allowed, update) ==
    IF Len(allowed) = 0 THEN TRUE
    ELSE IF extractUserID(update) = 0 THEN FALSE
    ELSE \E i \in 1 .. Len(allowed) : allowed[i] = extractUserID(update)

\* The function Middleware(next) returns, applied to an update: whether it
\* called next, and what it sent itself.
Middleware(allowed, update) ==
    IF ~isAuthorized(allowed, update)
    THEN [nextCalled |-> FALSE,
          sent |-> IF getChatID(update) # 0
                   THEN <<"Access denied. You are not authorized to use this bot.">>
                   ELSE <<>>]
    ELSE [nextCalled |-> TRUE, sent |-> <<>>]

\* The task that runs the handlers.
AuthTasks == {1}

AuthInit ==
    /\ InitStore({""}, {HandlerMaxMessages}, {FALSE}, {}, {NoFile})
    /\ cfg = NoConfig
    /\ env = NoEnv
    /\ router \in HandlerRouters
    /\ rpc = "ready"
    /\ rcall = NoCall
    /\ rc = [t \in Tasks |-> NoRouterCall]
    /\ allowedUsers \in AuthLists
    /\ hl = [t \in Tasks |-> NoLocals]
    /\ out = [t \in Tasks |-> <<>>]

\* wrapped := m.Middleware(next); wrapped(ctx, b, update), once, up to its
\* wait: inside b.SendMessage when it sends the denial, inside next when it
\* calls the next handler; with nothing to send it returns at once.
CallMiddleware ==
    /\ rcall.op = ""
    /\ \E update \in Updates :
          LET r == Middleware(allowedUsers, update)
          IN  rcall' = [op |-> IF r.nextCalled THEN "Middleware.next"
                               ELSE IF r.sent # <<>> THEN "Middleware.SendMessage"
                               ELSE "Middleware",
                        update |-> update,
                        nextCalled |-> r.nextCalled, sent |-> r.sent]
    /\ UNCHANGED <<cfg, env, rc, router, rpc, storeVars, handlerVars>>

\* b.SendMessage, or next, returns, and the middleware returns.
MiddlewareReturned ==
    /\ rcall.op \in {"Middleware.next", "Middleware.SendMessage"}
    /\ rcall' = [rcall EXCEPT !.op = "Middleware"]
    /\ UNCHANGED <<cfg, env, rc, router, rpc, storeVars, handlerVars>>

AuthNext ==
    \/ CallMiddleware
    \/ MiddlewareReturned
    \/ \E t \in AuthTasks :
          \/ StartHandler(t) \/ HelpHandler(t) \/ MyIDHandler(t) \/ ModelHandler(t)
          \/ TextMessageHandler(t) \/ ChatActionSent(t)
          \/ TextMessageGot(t) \/ TextMessageAnswered(t)
          \/ TextMessageReplied(t) \/ TextMessageSaved(t)
          \/ ClearHandler(t) \/ ClearDeleted(t)
          \/ MessageSent(t)
          \/ GetRLock(t) \/ GetRead(t) \/ GetReturn(t)
          \/ SaveLock(t) \/ SaveEnter(t) \/ SaveOpen(t) \/ SaveWrite(t) \/ SaveReturn(t)
          \/ DeleteLock(t) \/ DeleteEnter(t) \/ DeleteRemove(t) \/ DeleteReturn(t)

AuthSpec == AuthInit /\ [][AuthNext]_vars

(***************************************************************************)
(* The claims about the session store.                                     *)
(***************************************************************************)
\* What Save keeps of M on a store retaining n: the last n elements of M in
\* their order when n > 0 and M has more, M itself otherwise.
LastN(M, n) ==
    IF n > 0 /\ Len(M) > n THEN [i \in 1 .. n |-> M[Len(M) - n + i]] ELSE M

\* The suffix of M that is left when its first k elements are dropped.
DropFirst(M, k) == [i \in 1 .. (Len(M) - k) |-> M[k + i]]

\* The file of the user of the store call task t is in.
FileOf(t) == fs[sessionPath(mgr, frame[t].userID)]

\* Task t's Get has its results and met no I/O failure.
GotBy(t) == pc[t] = "g_done" /\ ~frame[t].fault

\* Task t's Save has written its file and holds the lock still.
SavedBy(t) == pc[t] = "s_done" /\ frame[t].err = ""

\* C1: on a store retaining N >= 1 messages, a Get that follows a successful
\* Save(u, M), with no Save or Delete for u in between, returns M when
\* len(M) <= N and the last N elements of M, in order, otherwise.
SaveGetRoundTrip ==
    \A t \in Tasks :
        (/\ GotBy(t)
         /\ lastWrite[frame[t].userID].kind = "Save"
         /\ mgr.maxMessages >= 1)
        => /\ frame[t].err = ""
           /\ frame[t].messages = LastN(lastWrite[frame[t].userID].arg, mgr.maxMessages)

\* A Get returns the last two of three saved messages.
SaveGetRoundTripWitness ==
    \E t \in Tasks :
        /\ GotBy(t)
        /\ mgr.maxMessages = 2
        /\ lastWrite[frame[t].userID] = [kind |-> "Save", arg |-> <<m1, m2, m1>>]
        /\ frame[t].messages = <<m2, m1>>

\* C2, as amended: after a successful Save on a store NewManager returned
\* for maxMessages >= 0 (zero stands for the default, 50), the file holds a
\* suffix of the argument of at most the store's maxMessages elements; on a
\* store made with a negative maxMessages it holds the whole argument.
SaveKeepsBoundedSuffix ==
    \A t \in Tasks :
        SavedBy(t) =>
            \E k \in 0 .. Len(frame[t].arg) :
                /\ FileOf(t) = File(Marshal(DropFirst(frame[t].arg, k)))
                /\ mgr.maxMessages >= 0 =>
                      /\ mgr.maxMessages >= 1
                      /\ Len(frame[t].arg) - k <= mgr.maxMessages
                /\ mgr.maxMessages < 0 => k = 0

\* A Save of three messages on a store retaining one has dropped the first
\* two.
SaveKeepsBoundedSuffixWitness ==
    \E t \in Tasks :
        /\ SavedBy(t)
        /\ mgr.maxMessages = 1
        /\ frame[t].arg = <<m1, m2, m2>>
        /\ FileOf(t) = File(Marshal(<<m2>>))

\* C2, as claimed: whatever the arguments of NewManager, after a successful
\* Save the file holds a suffix of the argument of at most the store's
\* maxMessages elements.
SaveBoundsWhateverArguments ==
    \A t \in Tasks :
        SavedBy(t) =>
            \E k \in 0 .. Len(frame[t].arg) :
                /\ FileOf(t) = File(Marshal(DropFirst(frame[t].arg, k)))
                /\ Len(frame[t].arg) - k <= mgr.maxMessages

\* Where a call does its file I/O, under the lock.
WriterIO == {"s_open", "s_write", "s_done", "d_remove", "d_done"}
ReaderIO == {"g_read", "g_done"}

\* C3: while a Save or a Delete does its file I/O, no other Get, Save or
\* Delete, for whichever user, does its own.
WritersExcludeAll ==
    \A t \in Tasks, o \in Tasks :
        (t # o /\ pc[t] \in WriterIO) => pc[o] \notin (WriterIO \cup ReaderIO)

\* Two Gets for the same user read the file at the same time.
GetsOverlap ==
    \E t \in Tasks, o \in Tasks :
        /\ t # o
        /\ pc[t] = "g_read"
        /\ pc[o] = "g_read"
        /\ frame[t].userID = frame[o].userID
        /\ mu.readers = {t, o}

\* C4: under any interleaving, a Get that returns messages returns none or
\* the truncated argument of the one Save that wrote the file last; it never
\* runs while the file is being written, and fails only on an I/O failure;
\* and after a Save the file is exactly that Save's truncated argument.
NoTornSession ==
    /\ \A u \in Users :
          lastWrite[u].kind = "Save" =>
              fs[sessionPath(mgr, u)] =
                  File(Marshal(LastN(lastWrite[u].arg, mgr.maxMessages)))
    /\ \A t \in Tasks :
          pc[t] \in ReaderIO => lastWrite[frame[t].userID].kind # "writing"
    /\ \A t \in Tasks :
          (pc[t] = "g_done" /\ frame[t].err = "") =>
              LET w == lastWrite[frame[t].userID]
              IN  \/ w.kind \in {"none", "Delete", "DeleteAgain"} /\ frame[t].messages = <<>>
                  \/ /\ w.kind \in {"Save", "unclosed"}
                     /\ frame[t].messages = LastN(w.arg, mgr.maxMessages)
    /\ \A t \in Tasks :
          (GotBy(t) /\ lastWrite[frame[t].userID].kind # "failed") => frame[t].err = ""

\* One of two concurrent Saves for the same user has written its file, the
\* other waits for the lock with a longer argument.
ConcurrentSaves ==
    \E t \in Tasks, o \in Tasks :
        /\ t # o
        /\ SavedBy(t)
        /\ pc[o] = "s_lock"
        /\ frame[o].userID = frame[t].userID
        /\ Len(frame[o].arg) > Len(frame[t].arg)
        /\ mgr.maxMessages = 2
        /\ FileOf(t) = File(Marshal(frame[t].arg))

\* The sequences a session file can hold.
Storable == SeqsUpTo(ApiMessages, MaxLen)

\* C5: without an I/O failure, Get returns no messages and no error when the
\* user has no file, an error when the file is not the encoding of a message
\* sequence, and the encoded sequence with no error otherwise.
GetOutcomes ==
    \A t \in Tasks :
        GotBy(t) =>
            IF ~FileOf(t).exists
            THEN frame[t].messages = <<>> /\ frame[t].err = ""
            ELSE IF \E M \in Storable : FileOf(t).data = Marshal(M)
            THEN /\ frame[t].err = ""
                 /\ FileOf(t).data = Marshal(frame[t].messages)
            ELSE IF \E x \in ForeignFiles : FileOf(t).data = x.data
            THEN \A x \in ForeignFiles :
                    FileOf(t).data = x.data =>
                        /\ frame[t].messages = x.messages
                        /\ frame[t].err = x.err
            ELSE /\ frame[t].err = "failed to parse session"
                 /\ frame[t].messages = <<>>

\* A Get on a file that a failed write has cut off returns the parse error.
GetOnCorruptedFile ==
    \E t \in Tasks :
        /\ GotBy(t)
        /\ FileOf(t).exists
        /\ Len(FileOf(t).data) > 0
        /\ frame[t].err = "failed to parse session"

\* C6: without an I/O failure Delete returns no error, whether the file
\* exists or not, and leaves no file; from a successful Delete until the
\* next Save for the user, Get returns no messages and no error.
DeleteIdempotent ==
    /\ \A t \in Tasks :
          (pc[t] = "d_done" /\ ~frame[t].fault) =>
              frame[t].err = "" /\ ~FileOf(t).exists
    /\ \A t \in Tasks :
          (GotBy(t) /\ lastWrite[frame[t].userID].kind \in {"Delete", "DeleteAgain"}) =>
              frame[t].messages = <<>> /\ frame[t].err = ""

\* The second of two Deletes in a row has succeeded.
DeleteTwice ==
    \E t \in Tasks :
        /\ pc[t] = "d_done"
        /\ frame[t].err = ""
        /\ lastWrite[frame[t].userID].kind = "DeleteAgain"

\* The turn the text handler of task t appends to the history it loaded.
TurnOf(t) == <<Message("user", hl[t].text), Message("assistant", hl[t].response)>>

\* C7: there is no atomic append.  After the Save of a text handler the
\* file is the history that handler loaded followed by its own turn,
\* truncated, whatever other handlers saved since it loaded.
LastSaveTakesAll ==
    \A t \in Tasks :
        (SavedBy(t) /\ frame[t].caller = "text") =>
            FileOf(t) = File(Marshal(LastN(hl[t].loaded \o TurnOf(t), mgr.maxMessages)))

\* Two handlers for the same user loaded the same empty history; both have
\* saved, and the file holds the turn of the later one alone.
LostTurn ==
    \E t \in Tasks, o \in Tasks :
        /\ t # o
        /\ pc[o] = "h_saved" /\ hl[o].err = ""
        /\ SavedBy(t) /\ frame[t].caller = "text"
        /\ hl[o].userID = hl[t].userID
        /\ hl[o].loaded = <<>> /\ hl[t].loaded = <<>>
        /\ hl[o].text # hl[t].text
        /\ FileOf(t) = File(Marshal(TurnOf(t)))

(***************************************************************************)
(* The claims about the router.                                            *)
(***************************************************************************)
\* No backend of the configuration has its enabled flag set.
NoFlag(c) == \A b \in Backends : ~c[b].Enabled

\* The positions of the providers of r that report enabled.
EnabledAt(r) == {i \in 1 .. Len(r.providers) : IsEnabled(r.providers[i])}

\* C8: NewRouter on a configuration with no enabled flag returns a nil
\* Router and the error "no LLM provider enabled"; GetProvider and
\* SendMessage on a router none of whose providers is enabled return the
\* same text.
NoProviderError ==
    /\ (rcall.op = "NewRouter" /\ NoFlag(cfg)) =>
          router.nil /\ rcall.err = <<"no LLM provider enabled">>
    /\ (rcall.op \in {"GetProvider", "SendMessage"} /\ EnabledAt(router) = {}) =>
          rcall.err = <<"no LLM provider enabled">>

\* NewRouter has failed on a configuration with no flag set, although the
\* environment holds every key.
NewRouterRefused ==
    /\ rcall.op = "NewRouter"
    /\ NoFlag(cfg)
    /\ \A k \in EnvKeys : env[k] # ""
    /\ router.nil
    /\ rpc = "failed"

\* C9, as claimed: a Router that NewRouter returns with no error holds a
\* provider that reports enabled, and GetProvider on it returns a provider.
NeverUsableButEmpty ==
    (rcall.op = "NewRouter" /\ rcall.err = NilErr) =>
        /\ EnabledAt(router) # {}
        /\ GetProvider(router).err = NilErr

\* C10: GetProvider returns the provider at the default index when the index
\* is set and that provider reports enabled, otherwise the first provider
\* that reports enabled; the no-provider error exactly when none does; and
\* the provider it returns reports enabled.
ProviderSelection ==
    rcall.op = "GetProvider" =>
        LET ps == router.providers
            d == router.defaultIdx
            on == EnabledAt(router)
            first == CHOOSE i \in on : \A j \in on : i <= j
        IN  /\ IF d >= 0 /\ d < Len(ps) /\ (d + 1) \in on
               THEN rcall.provider = ps[d + 1] /\ rcall.err = NilErr
               ELSE IF on # {}
               THEN rcall.provider = ps[first] /\ rcall.err = NilErr
               ELSE rcall.err = <<"no LLM provider enabled">>
            /\ (rcall.err = <<"no LLM provider enabled">>) <=> (on = {})
            /\ rcall.err = NilErr => IsEnabled(rcall.provider)

\* The provider at the default index is not enabled, and GetProvider has
\* returned the first one instead.
DefaultFallsBack ==
    /\ rcall.op = "GetProvider"
    /\ Len(router.providers) = 2
    /\ router.defaultIdx = 1
    /\ EnabledAt(router) = {1}
    /\ rcall.provider = router.providers[1]

\* The backends in the order NewRouter visits them, and the name of the
\* provider each one constructs.
BackendOrder == <<"OpenAI", "Anthropic", "Ollama", "OpenRouter", "OpenCode">>
NameOf == [OpenAI |-> "openai", Anthropic |-> "anthropic", Ollama |-> "ollama",
           OpenRouter |-> "openrouter", OpenCode |-> "opencode"]

\* The names of the backends whose flag is set in c, in that order, from
\* position i on.
RECURSIVE FlaggedFrom(_, _)
FlaggedFrom(c, i) ==
    IF i > Len(BackendOrder) THEN <<>>
    ELSE IF c[BackendOrder[i]].Enabled
    THEN <<NameOf[BackendOrder[i]]>> \o FlaggedFrom(c, i + 1)
    ELSE FlaggedFrom(c, i + 1)

\* The router that main built from cfg.
BuiltFrom(c) == rpc = "ready" /\ ~NoFlag(c)

\* C11, as claimed: the Router that NewRouter returns holds the providers of
\* the enabled backends in the order openai, anthropic, ollama, openrouter,
\* opencode, with the first of them as the default; and GetProvider on it
\* returns the provider of the one enabled backend, or of the earliest of
\* several.
FixedOrderFirstIsDefault ==
    /\ (rcall.op = "NewRouter" /\ rcall.err = NilErr) =>
          /\ [i \in 1 .. Len(router.providers) |-> Name(router.providers[i])]
                = FlaggedFrom(cfg, 1)
          /\ router.defaultIdx = 0
    /\ (rcall.op = "GetProvider" /\ BuiltFrom(cfg)) =>
          /\ rcall.err = NilErr
          /\ Name(rcall.provider) = FlaggedFrom(cfg, 1)[1]

\* The part of C11 about construction alone: the order of the providers and
\* the default index.
FixedOrderHeld ==
    (rcall.op = "NewRouter" /\ rcall.err = NilErr) =>
        /\ [i \in 1 .. Len(router.providers) |-> Name(router.providers[i])]
              = FlaggedFrom(cfg, 1)
        /\ router.defaultIdx = 0

\* The position of the provider that GetProvider selects in r: the default
\* one when it reports enabled, else the first that does; 0 when none does.
Selected(r) ==
    LET on == EnabledAt(r)
    IN  IF r.defaultIdx >= 0 /\ (r.defaultIdx + 1) \in on THEN r.defaultIdx + 1
        ELSE IF on = {} THEN 0
        ELSE CHOOSE i \in on : \A j \in on : i <= j

\* C12: Router.SendMessage returns the text and the error of the SendMessage
\* of the provider that GetProvider selects, the error unchanged; when no
\* provider is selected it returns empty text and the no-provider error and
\* invokes no provider.
SendMessageDelegates ==
    rcall.op = "SendMessage" =>
        LET i == Selected(router)
        IN  IF i = 0
            THEN /\ rcall.text = ""
                 /\ rcall.err = <<"no LLM provider enabled">>
                 /\ rcall.calls = <<>>
                 /\ rcall.requests = <<>>
            ELSE LET s == ProviderSendMessage(router.providers[i], rcall.messages,
                                              rcall.backend)
                 IN  /\ rcall.text = s.text
                     /\ rcall.err = s.err
                     /\ rcall.backend.err # "" =>
                           rcall.err = <<Name(router.providers[i]), ": ", rcall.backend.err>>

\* The selected provider's request has failed, and SendMessage has returned
\* the provider's error.
ProviderErrorPassedOn ==
    /\ rcall.op = "SendMessage"
    /\ Selected(router) # 0
    /\ rcall.backend.err = "i/o timeout"
    /\ rcall.err = <<Name(router.providers[Selected(router)]), ": ", "i/o timeout">>
    /\ rcall.text = ""

\* C13: one Router.SendMessage invokes SendMessage on at most one provider,
\* the selected one, at most once, and issues at most one request; when that
\* request fails the call returns the failure with empty text, whatever
\* other providers are enabled.
AtMostOneCall ==
    rcall.op = "SendMessage" =>
        /\ Len(rcall.calls) <= 1
        /\ Len(rcall.requests) <= 1
        /\ rcall.calls # <<>> =>
              /\ Selected(router) # 0
              /\ rcall.calls = <<Name(router.providers[Selected(router)])>>
        /\ (Selected(router) # 0 /\ rcall.backend.err # "") =>
              /\ rcall.err # NilErr
              /\ rcall.text = ""
              /\ rcall.calls = <<Name(router.providers[Selected(router)])>>

\* The selected provider's request has failed while a second provider is
\* enabled, and only the selected provider has been called.
NoFallbackAfterFailure ==
    /\ rcall.op = "SendMessage"
    /\ Cardinality(EnabledAt(router)) >= 2
    /\ rcall.backend.err # ""
    /\ rcall.err # NilErr
    /\ Len(rcall.calls) = 1

\* The backend a provider belongs to, and the environment variable that
\* holds the backend's credential ("" for ollama, which reads none).
BackendOf(p) == CHOOSE b \in Backends : NameOf[b] = Name(p)
KeyOf == [OpenAI |-> "OPENAI_API_KEY", Anthropic |-> "ANTHROPIC_API_KEY",
          Ollama |-> "", OpenRouter |-> "OPENROUTER_API_KEY",
          OpenCode |-> "OPENCODE_API_KEY"]
HasCredential(b, e) == b # "Ollama" => e[KeyOf[b]] # ""

\* A provider has been built from cfg and env and is held in rcall.provider.
ProviderBuilt == rpc \in {"built", "sending", "sent"}

\* Only ollama's flag is set in c.
OnlyOllama(c) == \A b \in Backends : c[b].Enabled <=> b = "Ollama"

\* C14: a provider of openai, anthropic, openrouter or opencode reports
\* enabled exactly when its flag is set and its credential is non-empty; a
\* provider of ollama exactly when its flag is set; and GetProvider on the
\* Router built with only ollama's flag set and no credential returns the
\* ollama provider.
EnabledIffFlagAndCredential ==
    ProviderBuilt =>
        LET p == rcall.provider
            b == BackendOf(p)
        IN  /\ b # "Ollama" =>
                  (IsEnabled(p) <=> (cfg[b].Enabled /\ env[KeyOf[b]] # ""))
            /\ b = "Ollama" => (IsEnabled(p) <=> cfg[b].Enabled)
            /\ (OnlyOllama(cfg) /\ env = NoEnv) =>
                  LET r == NewRouter(cfg, env)
                      g == GetProvider(r.router)
                  IN  /\ r.err = NilErr
                      /\ g.err = NilErr
                      /\ Name(g.provider) = "ollama"
                      /\ b = "Ollama" => g.provider = p

\* An openai provider built with its flag set and no key reports not
\* enabled.
FlagWithoutKey ==
    /\ ProviderBuilt
    /\ Name(rcall.provider) = "openai"
    /\ cfg["OpenAI"].Enabled
    /\ env["OPENAI_API_KEY"] = ""
    /\ ~IsEnabled(rcall.provider)

\* NewProvider has just been asked for one of the five known variants.
KnownVariant ==
    rcall.op = "NewProvider" /\ (rcall.err # NilErr => rcall.err[2] \in {NameOf[b] : b \in Backends})

\* Building a provider of a known variant does not fail.
KnownVariantBuilds == KnownVariant => rcall.err = NilErr

\* C15: for every variant, a provider built with its enabled flag set and
\* an empty default_model reports IsEnabled() false, and building it does
\* not fail.
EmptyModelDisables ==
    /\ KnownVariantBuilds
    /\ ProviderBuilt =>
          LET b == BackendOf(rcall.provider)
          IN  (cfg[b].Enabled /\ cfg[b].DefaultModel = "") => ~IsEnabled(rcall.provider)

\* A provider's SendMessage has returned; rcall holds its arguments, the
\* backend's answer and its results.
ProviderSent == rcall.op = "Provider.SendMessage"

\* C16: SendMessage on a provider that reports not enabled returns empty
\* text and the error "<name>: provider not enabled", and builds and issues
\* no request.
DisabledSendsNothing ==
    (ProviderSent /\ ~IsEnabled(rcall.provider)) =>
        /\ rcall.text = ""
        /\ rcall.err = <<Name(rcall.provider), ": ", "provider not enabled">>
        /\ rcall.requests = <<>>

\* A disabled opencode provider was sent a conversation the backend would
\* have answered, and has returned the disabled-provider error.
DisabledProviderAsked ==
    /\ ProviderSent
    /\ Name(rcall.provider) = "opencode"
    /\ ~IsEnabled(rcall.provider)
    /\ Len(rcall.messages) = 2
    /\ rcall.backend = BackendOk(<<"hello">>)
    /\ rcall.err = <<"opencode", ": ", "provider not enabled">>
    /\ rcall.requests = <<>>

\* C17: every error that a provider's SendMessage returns, for a disabled
\* provider or for a failed request, starts with the provider's name
\* followed by ": ".
ErrorsNameTheProvider ==
    (ProviderSent /\ rcall.err # NilErr) =>
        /\ Len(rcall.err) >= 3
        /\ rcall.err[1] = Name(rcall.provider)
        /\ rcall.err[1] \in {NameOf[b] : b \in Backends}
        /\ rcall.err[2] = ": "

\* The backend has answered an enabled anthropic provider with a
\* non-success status, and the error returned names anthropic.
BackendFailureNamed ==
    /\ ProviderSent
    /\ IsEnabled(rcall.provider)
    /\ Name(rcall.provider) = "anthropic"
    /\ rcall.backend.err = "500 Internal Server Error"
    /\ rcall.err = <<"anthropic", ": ", "500 Internal Server Error">>

\* C18: when the backend answers an enabled openai, ollama, openrouter or
\* opencode provider successfully, SendMessage returns a nil error with the
\* content of the first choice, or with empty text when there is no choice.
FirstChoiceOrEmpty ==
    (/\ ProviderSent
     /\ IsEnabled(rcall.provider)
     /\ Name(rcall.provider) \in {"openai", "ollama", "openrouter", "opencode"}
     /\ rcall.backend.err = "") =>
        /\ rcall.err = NilErr
        /\ Len(rcall.backend.texts) = 0 => rcall.text = ""
        /\ Len(rcall.backend.texts) >= 1 => rcall.text = rcall.backend.texts[1]

\* The backend has answered an enabled ollama provider's request with zero
\* choices, and SendMessage has returned empty text and no error.
ZeroChoicesNoError ==
    /\ ProviderSent
    /\ IsEnabled(rcall.provider)
    /\ Name(rcall.provider) = "ollama"
    /\ rcall.backend = BackendOk(<<>>)
    /\ Len(rcall.requests) = 1
    /\ rcall.text = ""
    /\ rcall.err = NilErr

\* The role of the native turn for a message of the given role.
NativeRole(role) == IF role \in {"system", "user", "assistant"} THEN role ELSE "user"

\* The position in the native turn list of the message at position i: the
\* same position, but for anthropic, whose turn list leaves the system
\* messages out, the position among the messages that are not system ones.
TurnPosition(p, messages, i) ==
    IF Name(p) = "anthropic"
    THEN Cardinality({j \in 1 .. i : messages[j].Role # "system"})
    ELSE i

\* C19: an enabled provider of any variant sends every conversation, and a
\* message whose role is not system, user or assistant becomes a user turn
\* at its position; the turn list of openai, ollama, openrouter and opencode
\* has one turn per message, in order, with the message's role and content.
UnknownRoleIsUser ==
    (ProviderSent /\ IsEnabled(rcall.provider)) =>
        LET p == rcall.provider
            msgs == rcall.messages
        IN  /\ Len(rcall.requests) = 1
            /\ rcall.err = NilErr <=> rcall.backend.err = ""
            /\ \A i \in 1 .. Len(msgs) :
                  msgs[i].Role \notin {"system", "user", "assistant"} =>
                      LET k == TurnPosition(p, msgs, i)
                      IN  /\ k \in 1 .. Len(rcall.requests[1].turns)
                          /\ rcall.requests[1].turns[k] = Turn("user", msgs[i].Content)
            /\ Name(p) # "anthropic" =>
                  rcall.requests[1].turns =
                      [i \in 1 .. Len(msgs) |-> Turn(NativeRole(msgs[i].Role), msgs[i].Content)]

\* An enabled openrouter provider was sent a conversation whose second
\* message has the role "tool", and its request holds three turns, the
\* second a user turn.
ToolTurnSentAsUser ==
    /\ ProviderSent
    /\ IsEnabled(rcall.provider)
    /\ Name(rcall.provider) = "openrouter"
    /\ Len(rcall.messages) = 3
    /\ rcall.messages[1].Role = "system"
    /\ rcall.messages[2].Role = "tool"
    /\ Len(rcall.requests) = 1
    /\ Len(rcall.requests[1].turns) = 3
    /\ rcall.requests[1].turns[2] = Turn("user", "c2")

\* The contents of the system messages from position i on, concatenated in
\* input order.
RECURSIVE SystemText(_, _)
SystemText(messages, i) ==
    IF i > Len(messages) THEN ""
    ELSE IF messages[i].Role = "system"
    THEN messages[i].Content \o SystemText(messages, i + 1)
    ELSE SystemText(messages, i + 1)

\* The messages from position i on that are not system messages, as turns.
RECURSIVE OtherTurns(_, _)
OtherTurns(messages, i) ==
    IF i > Len(messages) THEN <<>>
    ELSE IF messages[i].Role = "system" THEN OtherTurns(messages, i + 1)
    ELSE <<Turn(IF messages[i].Role = "assistant" THEN "assistant" ELSE "user",
                messages[i].Content)>> \o OtherTurns(messages, i + 1)

\* An enabled anthropic provider has sent its request.
AnthropicSent ==
    ProviderSent /\ IsEnabled(rcall.provider) /\ Name(rcall.provider) = "anthropic"

\* C20, as claimed: the system field of the anthropic request holds the
\* contents of all the system messages of the input, concatenated in input
\* order, and the turn list holds all the other messages in their order.
SystemContentsConcatenated ==
    AnthropicSent =>
        /\ AllText(rcall.requests[1].system, 1) = SystemText(rcall.messages, 1)
        /\ rcall.requests[1].turns = OtherTurns(rcall.messages, 1)

\* The part of C20 about the turn list alone, and the system field when the
\* input holds at most one system message.
OtherMessagesKept ==
    AnthropicSent =>
        /\ rcall.requests[1].turns = OtherTurns(rcall.messages, 1)
        /\ rcall.requests[1].maxTokens = MaxTokens
        /\ Cardinality({i \in 1 .. Len(rcall.messages) : rcall.messages[i].Role = "system"}) <= 1 =>
              AllText(rcall.requests[1].system, 1) = SystemText(rcall.messages, 1)

\* The names NewProvider recognizes.
RecognizedNames == {"openai", "anthropic", "ollama", "openrouter", "opencode"}

\* C21: NewProvider returns, for each of the five recognized names, no error
\* and a provider whose Name() is the requested name, built by that
\* variant's constructor from the configuration; for any other name it
\* returns no provider and the error "unknown provider type: <name>".
NewProviderByName ==
    rcall.op = "NewProvider" =>
        IF rcall.providerType \in RecognizedNames
        THEN /\ rcall.err = NilErr
             /\ ProviderBuilt
             /\ Name(rcall.provider) = rcall.providerType
             /\ rcall.provider.model = cfg[BackendOf(rcall.provider)].DefaultModel
        ELSE /\ rcall.provider = NilProvider
             /\ rpc = "failed"
             /\ rcall.err = <<"unknown provider type: ", rcall.providerType>>

\* NewProvider was asked for "gemini" and has returned the error that names
\* it, and no provider.
UnknownTypeRefused ==
    /\ rcall.op = "NewProvider"
    /\ rcall.providerType = "gemini"
    /\ rcall.provider = NilProvider
    /\ rcall.err = <<"unknown provider type: ", "gemini">>
    /\ rpc = "failed"

\* An enabled ollama provider has sent its request.
OllamaSent ==
    ProviderSent /\ IsEnabled(rcall.provider) /\ Name(rcall.provider) = "ollama"

\* C22, as claimed: with no endpoint override configured, the ollama
\* provider sends its request to http://localhost:11434/v1 whatever the
\* configured default_model is, and the model it sends is the default_model.
OllamaDefaultEndpoint ==
    OllamaSent =>
        /\ rcall.requests[1].endpoint = "http://localhost:11434/v1"
        /\ rcall.requests[1].model = cfg["Ollama"].DefaultModel

\* The part of C22 that holds: the model sent is the default_model, and the
\* endpoint is the default one when the default_model is empty.
OllamaModelSent ==
    OllamaSent =>
        /\ rcall.requests[1].model = cfg["Ollama"].DefaultModel
        /\ cfg["Ollama"].DefaultModel = "" =>
              rcall.requests[1].endpoint = "http://localhost:11434/v1"

\* Task t is in a text-message turn: TextMessageHandler has passed
\* checkAuth and has not returned.
TurnRunning(t) == hl[t].text # ""

\* C23, as claimed: every text-message turn eventually finishes, whatever
\* the backend does.
EveryTurnFinishes == \A t \in Tasks : TurnRunning(t) ~> ~TurnRunning(t)

\* What holds instead: a turn leaves every position but the wait for the
\* backend and the two waits for Telegram.
TurnReachesBackendOrFinishes ==
    \A t \in Tasks :
        TurnRunning(t) ~>
            (~TurnRunning(t) \/ pc[t] \in {"h_typing", "h_waiting", "h_sending"})

\* Task t is inside the Save that its text handler called.
InTextSave(t) ==
    frame[t].caller = "text" /\ pc[t] \in {"s_lock", "s_wait", "s_open", "s_write", "s_done"}

\* What one step does to task t, for the order of a text-message turn: the
\* turn's first call on the store is Get, the router is called from Get's return only, Save
\* from the router's return only, and the text sent after Save is the reply.
TurnStep(t) ==
    /\ (hl[t].text = "" /\ hl'[t].text # "") => pc'[t] = "h_typing"
    /\ (pc[t] = "h_typing" /\ pc'[t] # "h_typing") =>
          pc'[t] = "g_rlock" /\ frame'[t].caller = "text"
    /\ (pc[t] # "h_waiting" /\ pc'[t] = "h_waiting") => pc[t] = "h_got"
    /\ (pc[t] # "s_lock" /\ pc'[t] = "s_lock" /\ frame'[t].caller = "text") =>
          pc[t] = "h_answered"
    /\ (pc[t] # "h_answered" /\ pc'[t] = "h_answered") => pc[t] = "h_waiting"
    /\ (pc[t] = "h_saved" /\ pc'[t] # "h_saved") =>
          /\ out'[t] = <<hl[t].response>>
          /\ hl[t].messages[Len(hl[t].messages)] = Message("assistant", hl[t].response)

\* C25: a text-message turn performs Get, then Router.SendMessage, then
\* Save; the router is given the loaded history followed by one user message
\* with the update's text, and Save is given that sequence followed by one
\* assistant message with the non-empty reply, which is the text sent to
\* the user.
GetThenSendThenSave ==
    /\ [](\A t \in Tasks :
            /\ pc[t] = "h_waiting" =>
                  hl[t].messages = hl[t].loaded \o <<Message("user", hl[t].text)>>
            /\ InTextSave(t) =>
                  /\ hl[t].response # ""
                  /\ frame[t].arg = hl[t].loaded \o <<Message("user", hl[t].text),
                                                      Message("assistant", hl[t].response)>>)
    /\ [][\A t \in Tasks : TurnStep(t)]_vars

\* A text handler that loaded a history of two messages is in Save with
\* four messages, the last one the reply "hello".
TurnSaved ==
    \E t \in Tasks :
        /\ InTextSave(t)
        /\ Len(hl[t].loaded) = 2
        /\ Len(frame[t].arg) = 4
        /\ frame[t].arg[3] = Message("user", UpdateText[t])
        /\ frame[t].arg[4] = Message("assistant", "hello")

\* The turn of task t has failed: Get has returned an error, or
\* router.SendMessage has returned an error or an empty response.
TurnFailed(t) ==
    \/ pc[t] = "h_got" /\ hl[t].err # ""
    \/ pc[t] = "h_got" /\ hl[t].err = "" /\ EnabledAt(router) = {}
    \/ pc[t] = "h_answered" /\ (hl[t].rerr # NilErr \/ hl[t].response = "")

\* The request of task t was cancelled.
TurnCancelled(t) ==
    /\ pc[t] = "h_answered"
    /\ \E i \in 1 .. Len(hl[t].rerr) : hl[t].rerr[i] = "context canceled"

\* What the handler's next steps do after a failed turn: it calls neither
\* Save nor Delete and leaves the files as they are; it sends one message
\* and returns when the send does, or returns at once with no message when
\* the request was cancelled.
FailedTurnStep(t) ==
    /\ (TurnFailed(t) /\ pc'[t] # pc[t]) =>
            /\ pc'[t] = IF TurnCancelled(t) THEN "idle" ELSE "h_sending"
            /\ fs' = fs
            /\ lastWrite' = lastWrite
            /\ mu' = mu
            /\ IF TurnCancelled(t) THEN out'[t] = <<>> ELSE Len(out'[t]) = 1
    /\ (pc[t] = "h_sending" /\ pc'[t] # pc[t]) =>
            /\ pc'[t] = "idle"
            /\ fs' = fs
            /\ lastWrite' = lastWrite
            /\ mu' = mu
            /\ out'[t] = out[t]

\* The steps of a turn before Save write no file: the history on disk is
\* not changed by Get, nor by the call of the router.
NoWriteBeforeSave(t) ==
    (/\ pc[t] \in {"h_typing", "g_rlock", "g_read", "g_done",
                  "h_got", "h_waiting", "h_answered"}
     /\ pc'[t] # pc[t]) =>
        fs' = fs /\ lastWrite' = lastWrite

\* C26: when Get fails, or Router.SendMessage returns an error or an empty
\* reply, TextMessageHandler returns without calling Save or Delete, the
\* persisted history is what it was, and on a cancelled request no message
\* is sent to the user.
FailedTurnNotRecorded ==
    [][\A t \in Tasks : FailedTurnStep(t) /\ NoWriteBeforeSave(t)]_vars

\* A handler's request was cancelled while the user has a saved history;
\* the handler is about to return.
CancelledWithHistory ==
    \E t \in Tasks :
        /\ TurnCancelled(t)
        /\ fs[sessionPath(mgr, hl[t].userID)].exists
        /\ Len(hl[t].loaded) = 2
        /\ out[t] = <<>>

\* What a step of a call on the constructed Router may do: the Router, with
\* its provider sequence and default index and every provider's enabled
\* flag, model and name, stays as it is.
RouterKept ==
    /\ router' = router
    /\ router'.defaultIdx = router.defaultIdx
    /\ Len(router'.providers) = Len(router.providers)
    /\ \A i \in 1 .. Len(router.providers) :
          /\ IsEnabled(router'.providers[i]) = IsEnabled(router.providers[i])
          /\ Name(router'.providers[i]) = Name(router.providers[i])
          /\ router'.providers[i].model = router.providers[i].model

\* What the call of task t returned is what the call returns when it runs
\* alone on the Router: the provider GetProvider selects, and for
\* SendMessage what that provider made of the backend's answer.
ReturnedAsAlone(t) ==
    LET r == rc[t].returned
    IN  /\ r.op = "GetProvider" =>
              (r.provider = GetProvider(router).provider /\ r.err = GetProvider(router).err)
        /\ r.op = "SendMessage" =>
              LET s == RouterSendMessage(router, r.messages, r.backend)
              IN  /\ r.text = s.text
                  /\ r.err = s.err
                  /\ r.provider = GetProvider(router).provider

\* Two GetProvider calls returned the same provider, or both the error.
SameProvider(t, u) ==
    (rc[t].returned.op = "GetProvider" /\ rc[u].returned.op = "GetProvider") =>
        /\ rc[t].returned.provider = rc[u].returned.provider
        /\ rc[t].returned.err = rc[u].returned.err

\* C24: after construction no step of a GetProvider or SendMessage call
\* changes the Router's provider sequence or default index or a provider's
\* enabled flag, model or name, and under every interleaving of the steps
\* of concurrent calls all GetProvider calls return the same provider (or
\* all the no-provider error), the one a call running alone returns.
RouterImmutable ==
    /\ [][RouterKept]_vars
    /\ [](\A t \in Tasks : ReturnedAsAlone(t))
    /\ [](\A t, u \in Tasks : SameProvider(t, u))

\* Two GetProvider calls whose steps interleaved, on a Router of two
\* providers whose default one is not enabled, have both returned the other
\* provider, and the default index is where it was.
OverlappingCallsAgree ==
    /\ Len(router.providers) = 2
    /\ router.defaultIdx = 1
    /\ ~IsEnabled(router.providers[2])
    /\ \A t \in Tasks :
          /\ pc[t] = "idle"
          /\ rc[t].returned.op = "GetProvider"
          /\ rc[t].returned.overlapped
          /\ rc[t].returned.provider = router.providers[1]
          /\ rc[t].returned.err = NilErr

\* The elements of an allow-list.
Listed(allowed) == {allowed[i] : i \in 1 .. Len(allowed)}

\* The sender of an update, 0 when it carries none.
Sender(update) ==
    CASE update.Message # NoPart -> update.Message.from
      [] update.CallbackQuery # NoPart -> update.CallbackQuery.from
      [] update.EditedMessage # NoPart -> update.EditedMessage.from
      [] OTHER -> 0

\* Updates from the sender are processed under the allow-list.
Admitted(allowed, sender) == allowed = <<>> \/ (sender # 0 /\ sender \in Listed(allowed))

\* C27: the middleware calls the next handler exactly when the allow-list
\* is empty or holds the update's sender, an update with no sender counting
\* as not listed; and a handler is in a session Get, Save or Delete or in a
\* Router call, or has touched a session file or sent a reply, only for a
\* sender the allow-list admits.
OnlyAllowedProcessed ==
    /\ rcall.op \in {"Middleware", "Middleware.next", "Middleware.SendMessage"} =>
          (rcall.nextCalled <=> Admitted(allowedUsers, Sender(rcall.update)))
    /\ \A t \in Tasks :
          (pc[t] # "idle" \/ hl[t] # NoLocals \/ out[t] # <<>>) =>
              \E u \in UpdateUsers : Admitted(allowedUsers, u)
    /\ (\A u \in UpdateUsers : ~Admitted(allowedUsers, u)) =>
          /\ \A u \in Users : lastWrite[u] = NoWrite
          /\ \A t \in Tasks : frame[t] = NoFrame
          /\ mu = [w |-> 0, readers |-> {}]

\* The middleware, made with the allow-list <<101>>, was given an update
\* that carries no user information and has not called the next handler.
NoSenderRefused ==
    /\ rcall.op = "Middleware"
    /\ allowedUsers = <<101>>
    /\ rcall.update = [Message |-> NoPart, CallbackQuery |-> NoPart, EditedMessage |-> NoPart]
    /\ ~rcall.nextCalled
    /\ rcall.sent = <<>>

\* Task t is inside a Save or a Delete.
InSaveOrDelete(t) ==
    pc[t] \in {"s_lock", "s_wait", "s_open", "s_write", "s_done",
               "d_lock", "d_wait", "d_remove", "d_done"}

\* A step of a Save or Delete of task t leaves the file, and the last write,
\* of every user other than the call's own as they are.
OthersUntouched(t) ==
    (InSaveOrDelete(t) /\ pc'[t] # pc[t]) =>
        \A v \in Users \ {frame[t].userID} :
            /\ fs'[sessionPath(mgr, v)] = fs[sessionPath(mgr, v)]
            /\ lastWrite'[v] = lastWrite[v]

\* C28: distinct user ids have distinct session files, and no step of
\* Save(u, M) or Delete(u), failing or not, changes the file of another
\* user, which is all that Get of that user reads.
UsersIsolated ==
    /\ [](\A u \in Users, v \in Users :
            u # v => sessionPath(mgr, u) # sessionPath(mgr, v))
    /\ [][\A t \in Tasks : OthersUntouched(t)]_vars

\* One user's session was deleted after the other user's was saved, and the
\* saved file is there with what was saved.
OtherSessionSurvives ==
    \E u \in Users, v \in Users :
        /\ u # v
        /\ lastWrite[u].kind = "Save"
        /\ lastWrite[u].arg # <<>>
        /\ fs[sessionPath(mgr, u)] = File(Marshal(LastN(lastWrite[u].arg, mgr.maxMessages)))
        /\ lastWrite[v].kind = "Delete"
        /\ ~fs[sessionPath(mgr, v)].exists
        /\ \A t \in Tasks : pc[t] = "idle"

\* Task t holds the store lock, as a reader or as the writer.
HoldsLock(t) == mu.w = t \/ t \in mu.readers

\* Task t is inside a call on the store.
InStoreCall(t) ==
    pc[t] \in {"g_rlock", "g_read", "g_done",
               "s_lock", "s_wait", "s_open", "s_write", "s_done",
               "d_lock", "d_wait", "d_remove", "d_done"}

\* C29: a task that is not inside a Get, Save or Delete holds no lock,
\* whichever way its call returned, and every call on the store eventually
\* returns.
EveryCallReturns ==
    /\ [](\A t \in Tasks : ~InStoreCall(t) => ~HoldsLock(t))
    /\ \A t \in Tasks : InStoreCall(t) ~> ~InStoreCall(t)

\* A Save whose write failed has returned its error, and the lock is free.
FailedSaveReleased ==
    \E u \in Users :
        /\ lastWrite[u].kind = "failed"
        /\ \A t \in Tasks : pc[t] = "idle"
        /\ mu = [w |-> NoTask, readers |-> {}]

\* Task t is in a handler's own code, between two calls on the store.
InHandlerBody(t) ==
    pc[t] \in {"h_typing", "h_got", "h_waiting", "h_answered", "h_saved",
               "c_deleted", "h_sending"}

\* C30: a handler holds the store lock nowhere in its own code, the wait for
\* Router.SendMessage included, and while one handler waits for the backend,
\* however long, a store call of another handler completes.
LockNotHeldAcrossSend ==
    /\ [](\A t \in Tasks : InHandlerBody(t) => ~HoldsLock(t))
    /\ \A t \in Tasks : \A o \in Tasks \ {t} :
           (pc[t] = "h_waiting" /\ InStoreCall(o)) ~> ~InStoreCall(o)

\* One handler waits for the backend while the other is writing inside Save.
SaveWhileOtherWaits ==
    \E t \in Tasks : \E o \in Tasks \ {t} :
        /\ pc[t] = "h_waiting"
        /\ pc[o] = "s_write"
        /\ mu.w = o

====
